---------------------------- MODULE Spec2Model ----------------------------
(***************************************************************************)
(* A model of the AI Excel interviewer backend:                            *)
(*   backend/interview_agent.py   LLMClient, ExcelEvaluator, InterviewAgent*)
(*   backend/app.py               InterviewOrchestrator, WebSocket endpoint*)
(*   backend/connection_manager.py  ConnectionManager                      *)
(*                                                                         *)
(* Python values are modelled as follows.                                  *)
(*   str    a sequence of one-character strings, so that lower(), split()  *)
(*          and the substring test `a in b` are computed character by      *)
(*          character.  A text the code only passes along (a fixed reply,  *)
(*          the text a generation call returns) is a one-element sequence  *)
(*          holding the whole text as one symbol.                          *)
(*   dict   a record; a key is present iff it is in the record's DOMAIN,   *)
(*          {} is <<>>.  d[k] on an absent key raises KeyError.            *)
(*   float  overall_score is the sum of four integers divided by 4; the    *)
(*          model keeps the numerator (overall_score_x4), so that          *)
(*          `overall_score >= 60` reads `overall_score_x4 >= 240`.         *)
(* Timestamps (datetime.utcnow()) are left out of every dict: no code path *)
(* reads them.                                                             *)
(***************************************************************************)
EXTENDS Integers, Sequences, FiniteSets, TLC

(***************************************************************************)
(* Python str primitives                                                   *)
(***************************************************************************)
UpperCase == <<"A","B","C","D","E","F","G","H","I","J","K","L","M",
               "N","O","P","Q","R","S","T","U","V","W","X","Y","Z">>
LowerCase == <<"a","b","c","d","e","f","g","h","i","j","k","l","m",
               "n","o","p","q","r","s","t","u","v","w","x","y","z">>
Whitespace == {" ", "\t", "\n", "\r"}

\* str.lower() on one character
LowerChar(c) ==
  IF \E i \in 1..26 : UpperCase[i] = c
  THEN LowerCase[CHOOSE i \in 1..26 : UpperCase[i] = c]
  ELSE c

\* str.lower()
Lower(s) == [i \in 1..Len(s) |-> LowerChar(s[i])]

\* the substring test `sub in s`
Contains(sub, s) ==
  \E i \in 0..(Len(s) - Len(sub)) : SubSeq(s, i + 1, i + Len(sub)) = sub

\* len(s.split()): the number of maximal runs of non-whitespace characters
WordCount(s) ==
  Cardinality({i \in 1..Len(s) :
                 /\ s[i] \notin Whitespace
                 /\ (i = 1 \/ s[i - 1] \in Whitespace)})

\* s.replace("_", " ").title() is applied to category names only; the model
\* keeps category names as symbols and tabulates the conversion.
TitleCase(category) ==
  CASE category = "basic_functions"   -> "Basic Functions"
    [] category = "lookup_functions"  -> "Lookup Functions"
    [] category = "data_analysis"     -> "Data Analysis"
    [] category = "advanced_features" -> "Advanced Features"
    [] category = "data_management"   -> "Data Management"
    [] category = "problem_solving"   -> "Problem Solving"
    [] category = "general"           -> "General"
    [] OTHER                          -> category

\* min(a, b)
Min(a, b) == IF a < b THEN a ELSE b

(***************************************************************************)
(* Fixed vocabularies and the question bank                                *)
(***************************************************************************)
\* interview_agent.py:97-101
accuracy_indicators ==
  << <<"v","l","o","o","k","u","p">>,  \* vlookup
     <<"h","l","o","o","k","u","p">>,  \* hlookup
     <<"i","n","d","e","x">>,  \* index
     <<"m","a","t","c","h">>,  \* match
     <<"s","u","m">>,  \* sum
     <<"a","v","e","r","a","g","e">>,  \* average
     <<"c","o","u","n","t">>,  \* count
     <<"p","i","v","o","t"," ","t","a","b","l","e">>,  \* pivot table
     <<"c","o","n","d","i","t","i","o","n","a","l"," ","f","o","r","m","a","t","t","i","n","g">>,  \* conditional formatting
     <<"d","a","t","a"," ","v","a","l","i","d","a","t","i","o","n">>,  \* data validation
     <<"m","a","c","r","o">>,  \* macro
     <<"f","o","r","m","u","l","a">>,  \* formula
     <<"f","u","n","c","t","i","o","n">>,  \* function
     <<"c","e","l","l"," ","r","e","f","e","r","e","n","c","e">>,  \* cell reference
     <<"a","b","s","o","l","u","t","e"," ","r","e","f","e","r","e","n","c","e">> >>  \* absolute reference

\* interview_agent.py:115-118
practical_indicators ==
  << <<"e","x","a","m","p","l","e">>,  \* example
     <<"s","c","e","n","a","r","i","o">>,  \* scenario
     <<"c","a","s","e">>,  \* case
     <<"s","i","t","u","a","t","i","o","n">>,  \* situation
     <<"d","a","t","a">>,  \* data
     <<"a","n","a","l","y","s","i","s">>,  \* analysis
     <<"b","u","s","i","n","e","s","s">>,  \* business
     <<"r","e","p","o","r","t">>,  \* report
     <<"d","a","s","h","b","o","a","r","d">>,  \* dashboard
     <<"a","u","t","o","m","a","t","i","o","n">>,  \* automation
     <<"e","f","f","i","c","i","e","n","c","y">> >>  \* efficiency

\* interview_agent.py:132-135
problem_solving_indicators ==
  << <<"f","i","r","s","t">>,  \* first
     <<"t","h","e","n">>,  \* then
     <<"n","e","x","t">>,  \* next
     <<"f","i","n","a","l","l","y">>,  \* finally
     <<"s","t","e","p">>,  \* step
     <<"p","r","o","c","e","s","s">>,  \* process
     <<"a","p","p","r","o","a","c","h">>,  \* approach
     <<"m","e","t","h","o","d">>,  \* method
     <<"s","o","l","u","t","i","o","n">>,  \* solution
     <<"s","o","l","v","e">>,  \* solve
     <<"i","d","e","n","t","i","f","y">>,  \* identify
     <<"a","n","a","l","y","z","e">>,  \* analyze
     <<"i","m","p","l","e","m","e","n","t">> >>  \* implement

\* interview_agent.py:351
advanced_indicators ==
  << <<"v","b","a">>,  \* vba
     <<"m","a","c","r","o">>,  \* macro
     <<"p","o","w","e","r"," ","q","u","e","r","y">>,  \* power query
     <<"p","o","w","e","r"," ","p","i","v","o","t">>,  \* power pivot
     <<"a","d","v","a","n","c","e","d">>,  \* advanced
     <<"c","o","m","p","l","e","x">> >>  \* complex

\* interview_agent.py:352
intermediate_indicators ==
  << <<"p","i","v","o","t"," ","t","a","b","l","e">>,  \* pivot table
     <<"v","l","o","o","k","u","p">>,  \* vlookup
     <<"i","n","d","e","x"," ","m","a","t","c","h">>,  \* index match
     <<"c","o","n","d","i","t","i","o","n","a","l"," ","f","o","r","m","a","t","t","i","n","g">> >>  \* conditional formatting

\* interview_agent.py:353
beginner_indicators ==
  << <<"b","a","s","i","c">>,  \* basic
     <<"b","e","g","i","n","n","e","r">>,  \* beginner
     <<"l","e","a","r","n","i","n","g">>,  \* learning
     <<"n","e","w"," ","t","o">> >>  \* new to

\* interview_agent.py:52-58, skill_categories["basic_functions"]
skills_basic_functions ==
  << <<"S","U","M">>,  \* SUM
     <<"A","V","E","R","A","G","E">>,  \* AVERAGE
     <<"C","O","U","N","T">>,  \* COUNT
     <<"M","A","X">>,  \* MAX
     <<"M","I","N">> >>  \* MIN

\* interview_agent.py:52-58, skill_categories["lookup_functions"]
skills_lookup_functions ==
  << <<"V","L","O","O","K","U","P">>,  \* VLOOKUP
     <<"H","L","O","O","K","U","P">>,  \* HLOOKUP
     <<"I","N","D","E","X">>,  \* INDEX
     <<"M","A","T","C","H">>,  \* MATCH
     <<"X","L","O","O","K","U","P">> >>  \* XLOOKUP

\* interview_agent.py:52-58, skill_categories["data_analysis"]
skills_data_analysis ==
  << <<"P","i","v","o","t"," ","T","a","b","l","e","s">>,  \* Pivot Tables
     <<"C","h","a","r","t","s">>,  \* Charts
     <<"D","a","t","a"," ","V","a","l","i","d","a","t","i","o","n">>,  \* Data Validation
     <<"C","o","n","d","i","t","i","o","n","a","l"," ","F","o","r","m","a","t","t","i","n","g">> >>  \* Conditional Formatting

\* interview_agent.py:52-58, skill_categories["advanced_features"]
skills_advanced_features ==
  << <<"M","a","c","r","o","s">>,  \* Macros
     <<"V","B","A">>,  \* VBA
     <<"A","r","r","a","y"," ","F","o","r","m","u","l","a","s">>,  \* Array Formulas
     <<"P","o","w","e","r"," ","Q","u","e","r","y">>,  \* Power Query
     <<"P","o","w","e","r"," ","P","i","v","o","t">> >>  \* Power Pivot

\* interview_agent.py:52-58, skill_categories["data_management"]
skills_data_management ==
  << <<"S","o","r","t","i","n","g">>,  \* Sorting
     <<"F","i","l","t","e","r","i","n","g">>,  \* Filtering
     <<"S","u","b","t","o","t","a","l","s">>,  \* Subtotals
     <<"G","r","o","u","p","i","n","g">>,  \* Grouping
     <<"F","r","e","e","z","e"," ","P","a","n","e","s">> >>  \* Freeze Panes

\* interview_agent.py:207-237, question_bank["introduction"]
bank_introduction ==
  << <<"H","e","l","l","o","!"," ","I","'","m"," ","y","o","u","r"," ","A","I"," ","E","x","c","e","l"," ","i","n","t","e","r","v","i","e","w","e","r","."," ","C","a","n"," ","y","o","u"," ","t","e","l","l"," ","m","e"," ","a","b","o","u","t"," ","y","o","u","r"," ","E","x","c","e","l"," ","e","x","p","e","r","i","e","n","c","e"," ","a","n","d"," ","w","h","a","t"," ","y","o","u","'","r","e"," ","m","o","s","t"," ","c","o","m","f","o","r","t","a","b","l","e"," ","w","o","r","k","i","n","g"," ","w","i","t","h","?">>,  \* Hello! I'm your AI Excel interviewer. Can you tell me about your Excel experience and what you're most comfortable working with?
     <<"W","e","l","c","o","m","e","!"," ","L","e","t","'","s"," ","s","t","a","r","t"," ","w","i","t","h"," ","a"," ","b","r","i","e","f"," ","i","n","t","r","o","d","u","c","t","i","o","n","."," ","H","o","w"," ","l","o","n","g"," ","h","a","v","e"," ","y","o","u"," ","b","e","e","n"," ","u","s","i","n","g"," ","E","x","c","e","l",","," ","a","n","d"," ","w","h","a","t","'","s"," ","y","o","u","r"," ","p","r","i","m","a","r","y"," ","u","s","e"," ","c","a","s","e","?">> >>  \* Welcome! Let's start with a brief introduction. How long have you been using Excel, and what's your primary use case?

\* interview_agent.py:207-237, question_bank["basic_functions"]
bank_basic_functions ==
  << <<"C","a","n"," ","y","o","u"," ","e","x","p","l","a","i","n"," ","t","h","e"," ","d","i","f","f","e","r","e","n","c","e"," ","b","e","t","w","e","e","n"," ","S","U","M"," ","a","n","d"," ","S","U","M","I","F"," ","f","u","n","c","t","i","o","n","s","?"," ","W","h","e","n"," ","w","o","u","l","d"," ","y","o","u"," ","u","s","e"," ","e","a","c","h","?">>,  \* Can you explain the difference between SUM and SUMIF functions? When would you use each?
     <<"H","o","w"," ","w","o","u","l","d"," ","y","o","u"," ","c","a","l","c","u","l","a","t","e"," ","t","h","e"," ","a","v","e","r","a","g","e"," ","o","f"," ","v","a","l","u","e","s"," ","i","n"," ","a"," ","r","a","n","g","e"," ","w","h","i","l","e"," ","e","x","c","l","u","d","i","n","g"," ","z","e","r","o","s","?">>,  \* How would you calculate the average of values in a range while excluding zeros?
     <<"E","x","p","l","a","i","n"," ","h","o","w"," ","C","O","U","N","T",","," ","C","O","U","N","T","A",","," ","a","n","d"," ","C","O","U","N","T","B","L","A","N","K"," ","f","u","n","c","t","i","o","n","s"," ","w","o","r","k"," ","a","n","d"," ","g","i","v","e"," ","e","x","a","m","p","l","e","s"," ","o","f"," ","w","h","e","n"," ","y","o","u","'","d"," ","u","s","e"," ","e","a","c","h",".">> >>  \* Explain how COUNT, COUNTA, and COUNTBLANK functions work and give examples of when you'd use each.

\* interview_agent.py:207-237, question_bank["lookup_functions"]
bank_lookup_functions ==
  << <<"W","a","l","k"," ","m","e"," ","t","h","r","o","u","g","h"," ","h","o","w"," ","V","L","O","O","K","U","P"," ","w","o","r","k","s","."," ","W","h","a","t"," ","a","r","e"," ","i","t","s"," ","l","i","m","i","t","a","t","i","o","n","s"," ","a","n","d"," ","w","h","e","n"," ","m","i","g","h","t"," ","y","o","u"," ","c","h","o","o","s","e"," ","I","N","D","E","X","/","M","A","T","C","H"," ","i","n","s","t","e","a","d","?">>,  \* Walk me through how VLOOKUP works. What are its limitations and when might you choose INDEX/MATCH instead?
     <<"H","o","w"," ","w","o","u","l","d"," ","y","o","u"," ","h","a","n","d","l","e"," ","a"," ","l","o","o","k","u","p"," ","s","c","e","n","a","r","i","o"," ","w","h","e","r","e"," ","y","o","u"," ","n","e","e","d"," ","t","o"," ","f","i","n","d"," ","t","h","e"," ","s","e","c","o","n","d"," ","o","c","c","u","r","r","e","n","c","e"," ","o","f"," ","a"," ","v","a","l","u","e","?">>,  \* How would you handle a lookup scenario where you need to find the second occurrence of a value?
     <<"E","x","p","l","a","i","n"," ","t","h","e"," ","d","i","f","f","e","r","e","n","c","e"," ","b","e","t","w","e","e","n"," ","V","L","O","O","K","U","P"," ","a","n","d"," ","X","L","O","O","K","U","P","."," ","W","h","a","t"," ","a","d","v","a","n","t","a","g","e","s"," ","d","o","e","s"," ","X","L","O","O","K","U","P"," ","o","f","f","e","r","?">> >>  \* Explain the difference between VLOOKUP and XLOOKUP. What advantages does XLOOKUP offer?

\* interview_agent.py:207-237, question_bank["data_analysis"]
bank_data_analysis ==
  << <<"D","e","s","c","r","i","b","e"," ","h","o","w"," ","y","o","u"," ","w","o","u","l","d"," ","c","r","e","a","t","e"," ","a"," ","p","i","v","o","t"," ","t","a","b","l","e"," ","t","o"," ","a","n","a","l","y","z","e"," ","s","a","l","e","s"," ","d","a","t","a"," ","b","y"," ","r","e","g","i","o","n"," ","a","n","d"," ","p","r","o","d","u","c","t"," ","c","a","t","e","g","o","r","y",".">>,  \* Describe how you would create a pivot table to analyze sales data by region and product category.
     <<"H","o","w"," ","w","o","u","l","d"," ","y","o","u"," ","u","s","e"," ","c","o","n","d","i","t","i","o","n","a","l"," ","f","o","r","m","a","t","t","i","n","g"," ","t","o"," ","h","i","g","h","l","i","g","h","t"," ","c","e","l","l","s"," ","t","h","a","t"," ","a","r","e"," ","a","b","o","v","e"," ","t","h","e"," ","a","v","e","r","a","g","e"," ","v","a","l","u","e"," ","i","n"," ","a"," ","c","o","l","u","m","n","?">>,  \* How would you use conditional formatting to highlight cells that are above the average value in a column?
     <<"E","x","p","l","a","i","n"," ","d","a","t","a"," ","v","a","l","i","d","a","t","i","o","n"," ","i","n"," ","E","x","c","e","l"," ","a","n","d"," ","p","r","o","v","i","d","e"," ","a"," ","p","r","a","c","t","i","c","a","l"," ","e","x","a","m","p","l","e"," ","o","f"," ","w","h","e","n"," ","y","o","u","'","d"," ","u","s","e"," ","i","t",".">> >>  \* Explain data validation in Excel and provide a practical example of when you'd use it.

\* interview_agent.py:207-237, question_bank["advanced_features"]
bank_advanced_features ==
  << <<"H","a","v","e"," ","y","o","u"," ","w","o","r","k","e","d"," ","w","i","t","h"," ","E","x","c","e","l"," ","m","a","c","r","o","s","?"," ","D","e","s","c","r","i","b","e"," ","a"," ","s","c","e","n","a","r","i","o"," ","w","h","e","r","e"," ","y","o","u","'","d"," ","u","s","e"," ","a"," ","m","a","c","r","o"," ","t","o"," ","a","u","t","o","m","a","t","e"," ","a"," ","t","a","s","k",".">>,  \* Have you worked with Excel macros? Describe a scenario where you'd use a macro to automate a task.
     <<"H","o","w"," ","w","o","u","l","d"," ","y","o","u"," ","h","a","n","d","l","e"," ","a"," ","s","i","t","u","a","t","i","o","n"," ","w","h","e","r","e"," ","y","o","u"," ","n","e","e","d"," ","t","o"," ","a","n","a","l","y","z","e"," ","d","a","t","a"," ","f","r","o","m"," ","m","u","l","t","i","p","l","e"," ","w","o","r","k","s","h","e","e","t","s"," ","e","f","f","i","c","i","e","n","t","l","y","?">>,  \* How would you handle a situation where you need to analyze data from multiple worksheets efficiently?
     <<"E","x","p","l","a","i","n"," ","t","h","e"," ","c","o","n","c","e","p","t"," ","o","f"," ","a","r","r","a","y"," ","f","o","r","m","u","l","a","s"," ","a","n","d"," ","p","r","o","v","i","d","e"," ","a","n"," ","e","x","a","m","p","l","e"," ","o","f"," ","w","h","e","n"," ","t","h","e","y","'","r","e"," ","u","s","e","f","u","l",".">> >>  \* Explain the concept of array formulas and provide an example of when they're useful.

\* interview_agent.py:207-237, question_bank["problem_solving"]
bank_problem_solving ==
  << <<"Y","o","u"," ","h","a","v","e"," ","a"," ","d","a","t","a","s","e","t"," ","w","i","t","h"," ","d","u","p","l","i","c","a","t","e"," ","e","n","t","r","i","e","s","."," ","W","a","l","k"," ","m","e"," ","t","h","r","o","u","g","h"," ","y","o","u","r"," ","a","p","p","r","o","a","c","h"," ","t","o"," ","i","d","e","n","t","i","f","y"," ","a","n","d"," ","r","e","m","o","v","e"," ","d","u","p","l","i","c","a","t","e","s"," ","w","h","i","l","e"," ","p","r","e","s","e","r","v","i","n","g"," ","t","h","e"," ","o","r","i","g","i","n","a","l"," ","d","a","t","a",".">>,  \* You have a dataset with duplicate entries. Walk me through your approach to identify and remove duplicates while preserving the original data.
     <<"H","o","w"," ","w","o","u","l","d"," ","y","o","u"," ","c","r","e","a","t","e"," ","a"," ","d","y","n","a","m","i","c"," ","r","e","p","o","r","t"," ","t","h","a","t"," ","a","u","t","o","m","a","t","i","c","a","l","l","y"," ","u","p","d","a","t","e","s"," ","w","h","e","n"," ","n","e","w"," ","d","a","t","a"," ","i","s"," ","a","d","d","e","d"," ","t","o"," ","y","o","u","r"," ","s","o","u","r","c","e","?">>,  \* How would you create a dynamic report that automatically updates when new data is added to your source?
     <<"D","e","s","c","r","i","b","e"," ","h","o","w"," ","y","o","u"," ","w","o","u","l","d"," ","h","a","n","d","l","e"," ","a"," ","s","c","e","n","a","r","i","o"," ","w","h","e","r","e"," ","y","o","u"," ","n","e","e","d"," ","t","o"," ","c","o","m","b","i","n","e"," ","d","a","t","a"," ","f","r","o","m"," ","m","u","l","t","i","p","l","e"," ","E","x","c","e","l"," ","f","i","l","e","s"," ","w","i","t","h"," ","d","i","f","f","e","r","e","n","t"," ","s","t","r","u","c","t","u","r","e","s",".">> >>  \* Describe how you would handle a scenario where you need to combine data from multiple Excel files with different structures.

\* "Previous question"
PreviousQuestionText == <<"P","r","e","v","i","o","u","s"," ","q","u","e","s","t","i","o","n">>

\* "Tell me about your experience with Excel functions."
DefaultQuestionText == <<"T","e","l","l"," ","m","e"," ","a","b","o","u","t"," ","y","o","u","r"," ","e","x","p","e","r","i","e","n","c","e"," ","w","i","t","h"," ","E","x","c","e","l"," ","f","u","n","c","t","i","o","n","s",".">>

\* "I use VBA and macros daily"
IntroAdvanced == <<"I"," ","u","s","e"," ","V","B","A"," ","a","n","d"," ","m","a","c","r","o","s"," ","d","a","i","l","y">>

\* "new to Excel"
IntroPlain == <<"n","e","w"," ","t","o"," ","E","x","c","e","l">>

\* sample answers, introductions and questions for the calls of the
\* evaluator and the classifier
\* "I would use VLOOKUP or Index and MATCH"
AnswerLookup == <<"I"," ","w","o","u","l","d"," ","u","s","e"," ","V","L","O","O","K","U","P"," ","o","r"," ","I","n","d","e","x"," ","a","n","d"," ","M","A","T","C","H">>

\* "vlookup vlookup VLOOKUP"
AnswerRepeats == <<"v","l","o","o","k","u","p"," ","v","l","o","o","k","u","p"," ","V","L","O","O","K","U","P">>

\* "vlookup hlookup index match sum average count pivot table conditional formatting data validation macro formula"
AnswerTechnical == <<"v","l","o","o","k","u","p"," ","h","l","o","o","k","u","p"," ","i","n","d","e","x"," ","m","a","t","c","h"," ","s","u","m"," ","a","v","e","r","a","g","e"," ","c","o","u","n","t"," ","p","i","v","o","t"," ","t","a","b","l","e"," ","c","o","n","d","i","t","i","o","n","a","l"," ","f","o","r","m","a","t","t","i","n","g"," ","d","a","t","a"," ","v","a","l","i","d","a","t","i","o","n"," ","m","a","c","r","o"," ","f","o","r","m","u","l","a">>

\* "example scenario case situation data analysis business report dashboard automation efficiency"
AnswerPractical == <<"e","x","a","m","p","l","e"," ","s","c","e","n","a","r","i","o"," ","c","a","s","e"," ","s","i","t","u","a","t","i","o","n"," ","d","a","t","a"," ","a","n","a","l","y","s","i","s"," ","b","u","s","i","n","e","s","s"," ","r","e","p","o","r","t"," ","d","a","s","h","b","o","a","r","d"," ","a","u","t","o","m","a","t","i","o","n"," ","e","f","f","i","c","i","e","n","c","y">>

\* "vlookup hlookup index match sum average count macro formula function"
AnswerAt40 == <<"v","l","o","o","k","u","p"," ","h","l","o","o","k","u","p"," ","i","n","d","e","x"," ","m","a","t","c","h"," ","s","u","m"," ","a","v","e","r","a","g","e"," ","c","o","u","n","t"," ","m","a","c","r","o"," ","f","o","r","m","u","l","a"," ","f","u","n","c","t","i","o","n">>

\* "example scenario case situation data analysis business report first then next finally step process approach"
AnswerAt60 == <<"e","x","a","m","p","l","e"," ","s","c","e","n","a","r","i","o"," ","c","a","s","e"," ","s","i","t","u","a","t","i","o","n"," ","d","a","t","a"," ","a","n","a","l","y","s","i","s"," ","b","u","s","i","n","e","s","s"," ","r","e","p","o","r","t"," ","f","i","r","s","t"," ","t","h","e","n"," ","n","e","x","t"," ","f","i","n","a","l","l","y"," ","s","t","e","p"," ","p","r","o","c","e","s","s"," ","a","p","p","r","o","a","c","h">>

\* "example scenario case situation data analysis business report first then next finally step process approach vlookup hlookup index match sum average"
AnswerAt80 == <<"e","x","a","m","p","l","e"," ","s","c","e","n","a","r","i","o"," ","c","a","s","e"," ","s","i","t","u","a","t","i","o","n"," ","d","a","t","a"," ","a","n","a","l","y","s","i","s"," ","b","u","s","i","n","e","s","s"," ","r","e","p","o","r","t"," ","f","i","r","s","t"," ","t","h","e","n"," ","n","e","x","t"," ","f","i","n","a","l","l","y"," ","s","t","e","p"," ","p","r","o","c","e","s","s"," ","a","p","p","r","o","a","c","h"," ","v","l","o","o","k","u","p"," ","h","l","o","o","k","u","p"," ","i","n","d","e","x"," ","m","a","t","c","h"," ","s","u","m"," ","a","v","e","r","a","g","e">>

\* "pivot table and VLOOKUP"
IntroIntermediate == <<"p","i","v","o","t"," ","t","a","b","l","e"," ","a","n","d"," ","V","L","O","O","K","U","P">>

\* "new to VBA but I know vlookup basics"
IntroMixed == <<"n","e","w"," ","t","o"," ","V","B","A"," ","b","u","t"," ","I"," ","k","n","o","w"," ","v","l","o","o","k","u","p"," ","b","a","s","i","c","s">>

\* "learning pivot table"
IntroLearning == <<"l","e","a","r","n","i","n","g"," ","p","i","v","o","t"," ","t","a","b","l","e">>

\* "Tell me about yourself"
QuestionPlain == <<"T","e","l","l"," ","m","e"," ","a","b","o","u","t"," ","y","o","u","r","s","e","l","f">>

\* "Use VBA to SUM a column"
QuestionTwoCategories == <<"U","s","e"," ","V","B","A"," ","t","o"," ","S","U","M"," ","a"," ","c","o","l","u","m","n">>

\* "explain vlookup"
QuestionLowerCase == <<"e","x","p","l","a","i","n"," ","v","l","o","o","k","u","p">>

\* "ok"
FillerWord == <<"o","k">>

\* ""
AnswerEmpty == <<>>

(***************************************************************************)
(* ExcelEvaluator                                                          *)
(***************************************************************************)
\* self.skill_categories, in the dict's insertion order
skill_categories ==
  << [category |-> "basic_functions",   skills |-> skills_basic_functions],
     [category |-> "lookup_functions",  skills |-> skills_lookup_functions],
     [category |-> "data_analysis",     skills |-> skills_data_analysis],
     [category |-> "advanced_features", skills |-> skills_advanced_features],
     [category |-> "data_management",   skills |-> skills_data_management] >>

\* (mutant of IndicatorScore) the loop stops at the first hit
IndicatorScore_any_hit(indicators, weight, response_lower) ==
  IF \E i \in 1..Len(indicators) : Contains(indicators[i], response_lower)
  THEN weight ELSE 0

\* the loop `for indicator in indicators: if indicator in response_lower:
\* score += weight`
IndicatorScore(indicators, weight, response_lower) ==
  weight * Cardinality({i \in 1..Len(indicators) :
                          Contains(indicators[i], response_lower)})

assess_technical_accuracy(response) ==
  Min(IndicatorScore(accuracy_indicators, 10, Lower(response)), 100)

\* (mutant of assess_practical_application) the score is not clamped
assess_practical_application_unclamped(response) ==
  IndicatorScore(practical_indicators, 12, Lower(response))

assess_practical_application(response) ==
  Min(IndicatorScore(practical_indicators, 12, Lower(response)), 100)

assess_problem_solving(response) ==
  Min(IndicatorScore(problem_solving_indicators, 12, Lower(response)), 100)

\* (mutant of assess_communication) the bands include their upper limits
assess_communication_inclusive(response) ==
  LET word_count == WordCount(response)
  IN  IF word_count <= 10 THEN 30
      ELSE IF word_count <= 20 THEN 60
      ELSE IF word_count <= 50 THEN 80
      ELSE 90

\* (mutant of assess_communication) an answer without words scores nothing
assess_communication_blank_zero(response) ==
  LET word_count == WordCount(response)
  IN  IF word_count = 0 THEN 0
      ELSE IF word_count < 10 THEN 30
      ELSE IF word_count < 20 THEN 60
      ELSE IF word_count < 50 THEN 80
      ELSE 90

assess_communication(response) ==
  LET word_count == WordCount(response)
  IN  IF word_count < 10 THEN 30
      ELSE IF word_count < 20 THEN 60
      ELSE IF word_count < 50 THEN 80
      ELSE 90

\* (mutant of identify_skill_category) the question is matched as written
identify_skill_category_case_sensitive(question) ==
  LET hit(k) == \E j \in 1..Len(skill_categories[k].skills) :
                   Contains(Lower(skill_categories[k].skills[j]), question)
  IN  IF \E k \in 1..Len(skill_categories) : hit(k)
      THEN skill_categories[
             CHOOSE k \in 1..Len(skill_categories) :
               hit(k) /\ \A m \in 1..(k - 1) : ~hit(m)].category
      ELSE "general"

identify_skill_category(question) ==
  LET question_lower == Lower(question)
      hit(k) == \E j \in 1..Len(skill_categories[k].skills) :
                   Contains(Lower(skill_categories[k].skills[j]), question_lower)
  IN  IF \E k \in 1..Len(skill_categories) : hit(k)
      THEN skill_categories[
             CHOOSE k \in 1..Len(skill_categories) :
               hit(k) /\ \A m \in 1..(k - 1) : ~hit(m)].category
      ELSE "general"

FeedbackExcellent ==
  <<"Excellent response! You demonstrated strong Excel knowledge and clear communication.">>
FeedbackGood ==
  <<"Good response. You show solid understanding with room for improvement in some areas.">>
FeedbackAdequate ==
  <<"Adequate response. Consider providing more specific examples and technical details.">>
FeedbackImprove ==
  <<"Your response could be improved. Try to be more specific about Excel functions and provide practical examples.">>

\* (mutant of generate_feedback) the bands exclude their lower limits
generate_feedback_exclusive(overall_score_x4) ==
  IF overall_score_x4 > 320 THEN FeedbackExcellent
  ELSE IF overall_score_x4 > 240 THEN FeedbackGood
  ELSE IF overall_score_x4 > 160 THEN FeedbackAdequate
  ELSE FeedbackImprove

\* score = evaluation["overall_score"]; score >= 80 reads score_x4 >= 320
generate_feedback(overall_score_x4) ==
  IF overall_score_x4 >= 320 THEN FeedbackExcellent
  ELSE IF overall_score_x4 >= 240 THEN FeedbackGood
  ELSE IF overall_score_x4 >= 160 THEN FeedbackAdequate
  ELSE FeedbackImprove

evaluate_response(question, response) ==
  LET technical_accuracy    == assess_technical_accuracy(response)
      practical_application == assess_practical_application(response)
      problem_solving       == assess_problem_solving(response)
      communication         == assess_communication(response)
      overall_score_x4      == technical_accuracy + practical_application
                                 + problem_solving + communication
  IN  [technical_accuracy    |-> technical_accuracy,
       practical_application |-> practical_application,
       problem_solving       |-> problem_solving,
       communication         |-> communication,
       overall_score_x4      |-> overall_score_x4,
       feedback              |-> generate_feedback(overall_score_x4),
       skill_category        |-> identify_skill_category(question)]

(***************************************************************************)
(* Python dict primitives                                                  *)
(***************************************************************************)
EmptyDict == <<>>

\* d.get(k, default)
Get(d, k, default) == IF k \in DOMAIN d THEN d[k] ELSE default

\* d[k] = v
SetKey(d, k, v) == [x \in (DOMAIN d) \cup {k} |-> IF x = k THEN v ELSE d[x]]

\* seq[-1] = v
SetLast(seq, v) == [seq EXCEPT ![Len(seq)] = v]

(***************************************************************************)
(* LLMClient                                                               *)
(***************************************************************************)
\* what self.llm.create_completion can do
LLMOutcomes == {"completion", "exception"}

\* the text of a completion: any text; the code never inspects it
GeneratedText == <<"<generated text>">>
LLMErrorText  == <<"I encountered an error. Please try again.">>

\* LLMClient.generate_response: the completion's text, or, when the call
\* raises, the fixed text returned by the `except Exception` clause.  The
\* result says whether the call raised to ITS caller: it never does.
generate_response(llm_outcome) ==
  IF llm_outcome = "completion"
  THEN [raised |-> FALSE, text |-> GeneratedText]
  ELSE [raised |-> FALSE, text |-> LLMErrorText]

(***************************************************************************)
(* InterviewAgent                                                          *)
(*                                                                         *)
(* A method is an operator from the agent's interview_state (st) to a      *)
(* record [st, status, ...]:                                               *)
(*   status = "return"  the method returned `value`                        *)
(*   status = "raise"   the method raised (a KeyError)                     *)
(*   status = "await"   the method is suspended in                         *)
(*                      `await self.llm_client.generate_response(...)`,    *)
(*                      the one await that yields to the event loop;       *)
(*                      `frame` holds its local variables.                 *)
(* The part of a method after that await is the operator named *_resume.   *)
(***************************************************************************)
Return(st, value) == [st |-> st, status |-> "return", value |-> value]
Raise(st)         == [st |-> st, status |-> "raise"]
Await(st, frame)  == [st |-> st, status |-> "await", frame |-> frame]

\* the value of a call of an `async def` that is not awaited: a coroutine
\* object, whose body never runs
CoroutineObject == "<coroutine object>"

\* InterviewAgent.__init__: self.interview_state
InitialInterviewState ==
  [phase |-> "introduction",
   questions_asked |-> 0,
   current_skill_level |-> "beginner",
   responses |-> <<>>,
   performance_tracking |->
     [correct_answers |-> 0, total_questions |-> 0,
      skill_demonstrations |-> <<>>]]

\* self.question_bank
question_bank ==
  [introduction      |-> bank_introduction,
   basic_functions   |-> bank_basic_functions,
   lookup_functions  |-> bank_lookup_functions,
   data_analysis     |-> bank_data_analysis,
   advanced_features |-> bank_advanced_features,
   problem_solving   |-> bank_problem_solving]

\* (mutant of assess_initial_skill_level) intermediate is tested first
assess_initial_skill_level_intermediate_first(response) ==
  LET response_lower == Lower(response)
      any(indicators) == \E i \in 1..Len(indicators) :
                            Contains(indicators[i], response_lower)
  IN  IF any(intermediate_indicators) THEN "intermediate"
      ELSE IF any(advanced_indicators) THEN "advanced"
      ELSE "beginner"

\* the body of _assess_initial_skill_level
assess_initial_skill_level(response) ==
  LET response_lower == Lower(response)
      any(indicators) == \E i \in 1..Len(indicators) :
                            Contains(indicators[i], response_lower)
  IN  IF any(advanced_indicators) THEN "advanced"
      ELSE IF any(intermediate_indicators) THEN "intermediate"
      ELSE "beginner"

\* the category chosen in _generate_next_question
next_category(questions_asked, skill_level) ==
  IF questions_asked = 0 THEN "basic_functions"
  ELSE IF questions_asked = 1 THEN "lookup_functions"
  ELSE IF questions_asked = 2 THEN "data_analysis"
  ELSE IF questions_asked = 3
       THEN (IF skill_level # "beginner" THEN "advanced_features"
             ELSE "data_analysis")
  ELSE "problem_solving"

generate_next_question(st) ==
  LET skill_level     == st.current_skill_level
      questions_asked == st.questions_asked
      category  == next_category(questions_asked, skill_level)
      questions == Get(question_bank, category, question_bank["basic_functions"])
      question  == IF questions # <<>> THEN questions[1]
                   ELSE DefaultQuestionText
      st1 == [st EXCEPT !.questions_asked = @ + 1]
      st2 == [st1 EXCEPT !.responses =
                Append(@, [agent_message |-> question,
                           phase |-> st1.phase,
                           category |-> category])]
  IN  Return(st2, [message |-> question,
                   type |-> "question",
                   category |-> category,
                   question_number |-> st2.questions_asked])

\* (mutant of handle_introduction_response) the introduction is scored like
\* an answer
handle_introduction_response_scored(st, response) ==
  LET evaluation == evaluate_response(PreviousQuestionText, response)
      st1 == [st EXCEPT !.current_skill_level = CoroutineObject,
                        !.phase = "questions",
                        !.performance_tracking.total_questions = @ + 1]
      st2 == [st1 EXCEPT !.responses =
                SetLast(@, SetKey(@[Len(@)], "evaluation", evaluation))]
  IN  Await(st2, [at |-> "introduction", skill_level |-> CoroutineObject])

\* _handle_introduction_response up to its await.  Line 295 calls the
\* `async def _assess_initial_skill_level` without await.
handle_introduction_response(st, response) ==
  LET skill_level == CoroutineObject
      st1 == [st EXCEPT !.current_skill_level = skill_level]
      st2 == [st1 EXCEPT !.phase = "questions"]
  IN  Await(st2, [at |-> "introduction", skill_level |-> skill_level])

handle_introduction_response_resume(st, frame, generated) ==
  IF ~generated.raised
  THEN Return(st, [message |-> generated.text,
                   type |-> "question",
                   phase |-> "questions",
                   skill_level |-> frame.skill_level])
  ELSE generate_next_question(st)

\* _generate_follow_up_response up to its await
generate_follow_up_response(st, evaluation) ==
  Await(st, [at |-> "follow_up", evaluation |-> evaluation])

generate_follow_up_response_resume(st, frame, generated) ==
  IF ~generated.raised
  THEN Return(st, [message |-> generated.text,
                   type |-> "feedback_and_question",
                   evaluation |-> frame.evaluation])
  ELSE generate_next_question(st)

ConclusionFallbackText ==
  <<"Thank you for completing the Excel interview! I'll now prepare a detailed feedback report for you. Do you have any questions about Excel or the interview process?">>

\* _transition_to_conclusion up to its await
transition_to_conclusion(st, evaluation) ==
  Await([st EXCEPT !.phase = "conclusion"], [at |-> "conclusion"])

transition_to_conclusion_resume(st, frame, generated) ==
  IF ~generated.raised
  THEN Return(st, [message |-> generated.text,
                   type |-> "conclusion",
                   phase |-> "conclusion"])
  ELSE Return(st, [message |-> ConclusionFallbackText,
                   type |-> "conclusion",
                   phase |-> "conclusion"])

\* the fixed threshold of _handle_question_response
QuestionsThreshold == 5

\* (mutant of handle_question_response) the answer is counted before the
\* question is looked up
handle_question_response_counts_first(st, response) ==
  Raise([st EXCEPT !.performance_tracking.total_questions = @ + 1])

\* _handle_question_response up to the await of the method it ends in
handle_question_response(st, response) ==
  LET n == Len(st.responses)
  IN  IF n > 1 /\ "agent_message" \notin DOMAIN st.responses[n - 1]
      THEN Raise(st)      \* KeyError: 'agent_message'
      ELSE
        LET current_question ==
              IF n > 1 THEN st.responses[n - 1].agent_message
              ELSE PreviousQuestionText
            evaluation == evaluate_response(current_question, response)
            st1 == [st EXCEPT !.performance_tracking.total_questions = @ + 1]
            st2 == IF evaluation.overall_score_x4 >= 240
                   THEN [st1 EXCEPT !.performance_tracking.correct_answers = @ + 1]
                   ELSE st1
            st3 == [st2 EXCEPT !.responses =
                      SetLast(@, SetKey(@[Len(@)], "evaluation", evaluation))]
        IN  IF st3.questions_asked >= QuestionsThreshold
            THEN transition_to_conclusion(st3, evaluation)
            ELSE generate_follow_up_response(st3, evaluation)

\* a quotient num/den rounded to one decimal, in tenths (round(x, 1))
RoundTenths(num, den) ==
  LET q == (10 * num) \div den
      r == (10 * num) % den
  IN  IF 2 * r > den \/ (2 * r = den /\ q % 2 = 1) THEN q + 1 ELSE q

\* _get_performance_level(score), score = num/den
get_performance_level(num, den) ==
  IF num >= 90 * den THEN "Excellent"
  ELSE IF num >= 80 * den THEN "Very Good"
  ELSE IF num >= 70 * den THEN "Good"
  ELSE IF num >= 60 * den THEN "Satisfactory"
  ELSE "Needs Improvement"

\* `x in list`
InList(x, list) == \E i \in 1..Len(list) : list[i] = x

\* `if r.get("evaluation")`: the key is present and its dict is not empty
HasEvaluation(r) == Get(r, "evaluation", EmptyDict) # EmptyDict

RECURSIVE SumOverall(_)
SumOverall(evaluations) ==
  IF evaluations = <<>> THEN 0
  ELSE Get(Head(evaluations), "overall_score_x4", 0) + SumOverall(Tail(evaluations))

RECURSIVE Evaluated(_)
\* [r.get("evaluation", {}) for r in rs if r.get("evaluation")]
Evaluated(rs) ==
  IF rs = <<>> THEN <<>>
  ELSE IF HasEvaluation(Head(rs))
       THEN <<Head(rs).evaluation>> \o Evaluated(Tail(rs))
       ELSE Evaluated(Tail(rs))

RECURSIVE WithCategory(_, _)
\* [r for r in responses if r.get("category") == category]
WithCategory(rs, category) ==
  IF rs = <<>> THEN <<>>
  ELSE IF "category" \in DOMAIN Head(rs) /\ Head(rs).category = category
       THEN <<Head(rs)>> \o WithCategory(Tail(rs), category)
       ELSE WithCategory(Tail(rs), category)

ReportCategories ==
  {"basic_functions", "lookup_functions", "data_analysis",
   "advanced_features", "problem_solving"}

\* (mutant of analyze_skill_demonstrations) every category of the fixed list
\* gets an entry
analyze_skill_demonstrations_every_category(responses) ==
  [c \in ReportCategories |->
     LET category_responses == WithCategory(responses, c)
         evaluations == Evaluated(category_responses)
         num == SumOverall(evaluations)
         den == IF evaluations = <<>> THEN 4 ELSE 4 * Len(evaluations)
     IN  [average_score_x10  |-> RoundTenths(num, den),
          questions_answered |-> Len(category_responses),
          performance_level  |-> get_performance_level(num, den)]]

\* (mutant of analyze_skill_demonstrations) the average is taken over every
\* turn tagged with the category, a turn without an Evaluation counting 0
analyze_skill_demonstrations_over_tagged(responses) ==
  LET present == {c \in ReportCategories :
                    /\ WithCategory(responses, c) # <<>>
                    /\ Evaluated(WithCategory(responses, c)) # <<>>}
  IN  [c \in present |->
         LET category_responses == WithCategory(responses, c)
             evaluations == Evaluated(category_responses)
             num == SumOverall(evaluations)
             den == 4 * Len(category_responses)
         IN  [average_score_x10  |-> RoundTenths(num, den),
              questions_answered |-> Len(category_responses),
              performance_level  |-> get_performance_level(num, den)]]

\* a dict keyed by the categories that have an evaluated turn
analyze_skill_demonstrations(responses) ==
  LET present == {c \in ReportCategories :
                    /\ WithCategory(responses, c) # <<>>
                    /\ Evaluated(WithCategory(responses, c)) # <<>>}
  IN  [c \in present |->
         LET category_responses == WithCategory(responses, c)
             evaluations == Evaluated(category_responses)
             num == SumOverall(evaluations)
             den == 4 * Len(evaluations)
         IN  [average_score_x10  |-> RoundTenths(num, den),
              questions_answered |-> Len(category_responses),
              performance_level  |-> get_performance_level(num, den)]]

RECURSIVE strengths_loop(_, _)
strengths_loop(responses, strengths) ==
  IF responses = <<>> THEN strengths
  ELSE
    LET evaluation == Get(Head(responses), "evaluation", EmptyDict)
        category   == Get(evaluation, "skill_category", "general")
    IN  strengths_loop(Tail(responses),
          IF /\ Get(evaluation, "overall_score_x4", 0) >= 320
             /\ ~InList(category, strengths)
          THEN Append(strengths, TitleCase(category))
          ELSE strengths)

identify_strengths(responses) ==
  LET strengths == strengths_loop(responses, <<>>)
  IN  IF strengths # <<>> THEN strengths ELSE <<"General Excel knowledge">>

RECURSIVE improvement_loop(_, _)
improvement_loop(responses, improvement_areas) ==
  IF responses = <<>> THEN improvement_areas
  ELSE
    LET evaluation == Get(Head(responses), "evaluation", EmptyDict)
        category   == Get(evaluation, "skill_category", "general")
    IN  improvement_loop(Tail(responses),
          IF /\ Get(evaluation, "overall_score_x4", 0) < 240
             /\ ~InList(category, improvement_areas)
          THEN Append(improvement_areas, TitleCase(category))
          ELSE improvement_areas)

identify_improvement_areas(responses) ==
  LET improvement_areas == improvement_loop(responses, <<>>)
  IN  IF improvement_areas # <<>> THEN improvement_areas
      ELSE <<"Overall Excel proficiency">>

\* success_rate = num/den
generate_recommendations(num, den) ==
  IF num < 60 * den
  THEN <<"Focus on fundamental Excel functions and formulas",
         "Practice with real-world Excel scenarios">>
  ELSE IF num < 80 * den
  THEN <<"Enhance advanced Excel features knowledge",
         "Practice complex data analysis tasks">>
  ELSE <<"Consider Excel certification programs",
         "Explore advanced automation with VBA and macros">>

QuestionNotRecorded == <<"Question not recorded">>

RECURSIVE generate_detailed_feedback(_)
generate_detailed_feedback(responses) ==
  IF responses = <<>> THEN <<>>
  ELSE
    LET response == Head(responses)
    IN  IF HasEvaluation(response)
        THEN <<[question           |-> Get(response, "agent_message", QuestionNotRecorded),
                candidate_response |-> Get(response, "candidate_message", <<>>),
                score_x4           |-> Get(response.evaluation, "overall_score_x4", 0),
                feedback           |-> Get(response.evaluation, "feedback", <<>>),
                skill_category     |-> Get(response.evaluation, "skill_category", "general")]>>
             \o generate_detailed_feedback(Tail(responses))
        ELSE generate_detailed_feedback(Tail(responses))

\* (mutant of generate_final_report) the quotient is taken without the test
\* total_questions > 0: with no question counted the division raises and
\* the `except` clause returns the report of lines 495-504
generate_final_report_unguarded(st) ==
  LET performance     == st.performance_tracking
      responses       == st.responses
      total_questions == performance.total_questions
      correct_answers == performance.correct_answers
      num == correct_answers * 100
      den == total_questions
  IN  IF den = 0
      THEN [interview_summary |->
              [total_questions      |-> 0,
               correct_answers      |-> 0,
               success_rate_x10     |-> 0,
               overall_performance  |-> "Unable to assess",
               skill_level_assessed |-> "Unknown"],
            error |-> "Unable to generate complete report"]
      ELSE [interview_summary |->
              [total_questions      |-> total_questions,
               correct_answers      |-> correct_answers,
               success_rate_x10     |-> RoundTenths(num, den),
               overall_performance  |-> get_performance_level(num, den),
               skill_level_assessed |-> st.current_skill_level],
            skill_analysis        |-> analyze_skill_demonstrations(responses),
            strengths             |-> identify_strengths(responses),
            areas_for_improvement |-> identify_improvement_areas(responses),
            recommendations       |-> generate_recommendations(num, den),
            detailed_feedback     |-> generate_detailed_feedback(responses)]

\* generate_final_report: reads self.interview_state only; nothing in its
\* try block can raise on a state built by this class
generate_final_report(st) ==
  LET performance     == st.performance_tracking
      responses       == st.responses
      total_questions == performance.total_questions
      correct_answers == performance.correct_answers
      num == IF total_questions > 0 THEN correct_answers * 100 ELSE 0
      den == IF total_questions > 0 THEN total_questions ELSE 1
      skill_analysis == analyze_skill_demonstrations(responses)
  IN  [interview_summary |->
         [total_questions      |-> total_questions,
          correct_answers      |-> correct_answers,
          success_rate_x10     |-> RoundTenths(num, den),
          overall_performance  |-> get_performance_level(num, den),
          skill_level_assessed |-> st.current_skill_level],
       skill_analysis        |-> skill_analysis,
       strengths             |-> identify_strengths(responses),
       areas_for_improvement |-> identify_improvement_areas(responses),
       recommendations       |-> generate_recommendations(num, den),
       detailed_feedback     |-> generate_detailed_feedback(responses)]

\* (mutant of generate_final_report_leaves) the call counts itself as a
\* question
generate_final_report_leaves_counted(st) ==
  [st EXCEPT !.performance_tracking.total_questions = @ + 1]

\* the interview_state a call of generate_final_report leaves: the method
\* reads self.interview_state and assigns to no part of it
generate_final_report_leaves(st) == st

\* _handle_conclusion_response -> _generate_final_summary
handle_conclusion_response(st, response) ==
  Return(st, generate_final_report(st))

AgentErrorPayload ==
  [message |-> <<"I apologize, but I encountered an error processing your response. Could you please try again?">>,
   type |-> "error"]

\* (mutant of CatchInProcessResponse) the except clause also restarts the
\* interview
CatchInProcessResponse_restart(r) ==
  IF r.status = "raise"
  THEN Return([r.st EXCEPT !.phase = "introduction"], AgentErrorPayload)
  ELSE r

\* (mutant of CatchInProcessResponse) no except clause: the exception
\* leaves process_response
CatchInProcessResponse_reraise(r) == r

\* the `except Exception` clause of process_response
CatchInProcessResponse(r) ==
  IF r.status = "raise" THEN Return(r.st, AgentErrorPayload) ELSE r

\* the dispatch on the phase, lines 276-283
dispatch_on_phase(st, candidate_message) ==
  IF st.phase = "introduction"
  THEN handle_introduction_response(st, candidate_message)
  ELSE IF st.phase = "questions"
  THEN handle_question_response(st, candidate_message)
  ELSE IF st.phase = "conclusion"
  THEN handle_conclusion_response(st, candidate_message)
  ELSE generate_next_question(st)

\* (mutant of process_response) the turn of an utterance whose handler
\* raises is taken out of the history again
process_response_drops_failed_turn(st, candidate_message) ==
  LET st1 == [st EXCEPT !.responses =
                Append(@, [candidate_message |-> candidate_message,
                           phase |-> st.phase])]
      r == dispatch_on_phase(st1, candidate_message)
  IN  IF r.status = "raise" THEN Return(st, AgentErrorPayload) ELSE r

\* (mutant of process_response) the turn is put at the head of the history
process_response_newest_first(st, candidate_message) ==
  LET st1 == [st EXCEPT !.responses =
                <<[candidate_message |-> candidate_message,
                   phase |-> st.phase]>> \o @]
  IN  CatchInProcessResponse(dispatch_on_phase(st1, candidate_message))

\* process_response up to the await of the handler it ends in
process_response(st, candidate_message) ==
  LET st1 == [st EXCEPT !.responses =
                Append(@, [candidate_message |-> candidate_message,
                           phase |-> st.phase])]
  IN  CatchInProcessResponse(dispatch_on_phase(st1, candidate_message))

\* process_response from the point where the awaited generation resolves
process_response_resume(st, frame, generated) ==
  CatchInProcessResponse(
    IF frame.at = "introduction"
    THEN handle_introduction_response_resume(st, frame, generated)
    ELSE IF frame.at = "follow_up"
    THEN generate_follow_up_response_resume(st, frame, generated)
    ELSE transition_to_conclusion_resume(st, frame, generated))

(***************************************************************************)
(* InterviewOrchestrator                                                   *)
(***************************************************************************)
\* del d[k]
DelKey(d, k) == [x \in (DOMAIN d) \ {k} |-> d[x]]

\* the session ids clients use, and what a candidate may say
SessionIds == {"s1"}
Utterances == {IntroAdvanced, IntroPlain}

\* the WebSocket objects of the clients, by identity (id(websocket))
Sockets == {"w1"}

\* bounds of the model: agents ever constructed, turns in the histories of
\* the live agents together, calls suspended in a generation at one time
MaxInterviews == 1
MaxTurns      == 7
MaxPending    == 1

VARIABLES
  active_interviews,  \* self.active_interviews: session id -> agent object
  session_states,     \* self.session_states: session id -> session state dict
  agents,             \* the InterviewAgent objects ever constructed, by
                      \* identity (index): each one's interview_state, or
                      \* Collected once nothing refers to the object
  pending,            \* the process_message calls suspended in a generation
  last,               \* the call that completed last, and what its caller got
  active_connections, \* ConnectionManager.active_connections:
                      \* connection id -> websocket
  session_connections,\* ConnectionManager.session_connections:
                      \* session id -> connection id
  endpoints,          \* the websocket_interview_endpoint calls in their
                      \* receive loop, as <<websocket, session id>>
  arg_question,       \* a direct call of the evaluator: its question,
  arg_response,       \* its answer (also the classifier's introduction),
  ret_evaluation,     \* what evaluate_response returned,
  ret_skill_level,    \* what awaiting _assess_initial_skill_level returned
  arg_responses,      \* a history handed to the report aggregator,
  ret_report,         \* the report it returned
  arg_state,          \* the interview_state of the agent asked for a report,
  ret_report_again,   \* the report a second call on that agent returned
  ret_skill_analysis  \* what _analyze_skill_demonstrations returned

orchestrator == <<active_interviews, session_states, agents, pending, last>>
connections  == <<active_connections, session_connections, endpoints>>
direct_calls == <<arg_question, arg_response, ret_evaluation, ret_skill_level,
                  arg_responses, ret_report, arg_state, ret_report_again,
                  ret_skill_analysis>>
vars == <<active_interviews, session_states, agents, pending, last,
          active_connections, session_connections, endpoints,
          arg_question, arg_response, ret_evaluation, ret_skill_level,
          arg_responses, ret_report, arg_state, ret_report_again,
          ret_skill_analysis>>

\* the result of a call that was not made, and of one that returned value
NotCalled == [called |-> FALSE]
Called(value) == [called |-> TRUE, value |-> value]

NoCall == [op |-> "none"]

RECURSIVE TurnsIn(_)
TurnsIn(objs) ==
  IF objs = <<>> THEN 0 ELSE Len(Head(objs).responses) + TurnsIn(Tail(objs))

\* the session state dict built by start_interview
InitialSessionState(session_id) ==
  [session_id |-> session_id,
   current_phase |-> "introduction",
   questions_asked |-> 0,
   skill_level |-> "beginner",
   responses |-> <<>>,
   performance_metrics |->
     [correct_answers |-> 0, total_questions |-> 0,
      response_times |-> <<>>, skill_demonstrations |-> <<>>]]

OrchestratorErrorPayload ==
  [message |-> <<"I apologize, but I encountered an error. Could you please repeat your response?">>,
   type |-> "error"]

\* what `last` records of a completed process_message call: whether the
\* session id was found, the agent's phase when the utterance was accepted,
\* what agent.process_response returned and what process_message returned
Completed(session_id, found, entry_phase, agent_response, value) ==
  [op |-> "process_message", session_id |-> session_id,
   found |-> found, entry_phase |-> entry_phase,
   agent_response |-> agent_response, outcome |-> "return", value |-> value]

\* what `response = await agent.process_response(message)` gives
\* process_message: the dict returned, or, were the call to raise, the
\* exception, which has no "message" and lands in the `except Exception`
\* clause of process_message like the KeyError of line 121
Raised == [exception |-> "Exception"]

Outcome(r) == IF r.status = "raise" THEN Raised ELSE r.value

\* an agent object nothing refers to any more (garbage)
Collected ==
  [phase |-> "collected", questions_asked |-> 0,
   current_skill_level |-> "beginner", responses |-> <<>>,
   performance_tracking |->
     [correct_answers |-> 0, total_questions |-> 0,
      skill_demonstrations |-> <<>>]]

\* the agent objects, with those dropped that neither the registry nor a
\* suspended call refers to
Collect(objs, registry, calls) ==
  [o \in 1..Len(objs) |->
     IF \/ \E s \in DOMAIN registry : registry[s] = o
        \/ \E i \in DOMAIN calls : calls[i] # NoCall /\ calls[i].agent = o
     THEN objs[o] ELSE Collected]

\* the server after start-up: empty registry, no connection
Idle ==
  /\ active_interviews = EmptyDict
  /\ session_states = EmptyDict
  /\ agents = <<>>
  /\ pending = [i \in 1..MaxPending |-> NoCall]
  /\ last = NoCall
  /\ active_connections = EmptyDict
  /\ session_connections = EmptyDict
  /\ endpoints = {}

\* no agent is asked for a report, no history is analysed
NoReportCall ==
  /\ arg_state = EmptyDict
  /\ ret_report_again = NotCalled
  /\ ret_skill_analysis = NotCalled

Init ==
  /\ Idle
  /\ arg_question = <<>>
  /\ arg_response = <<>>
  /\ arg_responses = <<>>
  /\ ret_evaluation = NotCalled
  /\ ret_skill_level = NotCalled
  /\ ret_report = NotCalled
  /\ NoReportCall

\* (mutant of start_interview) only the agent is stored
start_interview_agent_only(session_id) ==
  LET registry == SetKey(active_interviews, session_id, Len(agents) + 1)
  IN  /\ active_interviews' = registry
      /\ agents' = Collect(Append(agents, InitialInterviewState),
                           registry, pending)
      /\ last' = [op |-> "start_interview", session_id |-> session_id,
                  outcome |-> "return"]
      /\ UNCHANGED <<session_states, pending>>

\* start_interview(session_id, candidate_info): a new agent and a new
\* session state are stored under session_id, replacing what was there
start_interview(session_id) ==
  LET registry == SetKey(active_interviews, session_id, Len(agents) + 1)
  IN  /\ active_interviews' = registry
      /\ agents' = Collect(Append(agents, InitialInterviewState),
                           registry, pending)
      /\ session_states' = SetKey(session_states, session_id,
                                  InitialSessionState(session_id))
      /\ last' = [op |-> "start_interview", session_id |-> session_id,
                  outcome |-> "return"]
      /\ UNCHANGED pending

\* process_message lines 116-126, run once agent.process_response has
\* returned `response`: the new session_states and what the caller gets.
\* A KeyError (the session id is gone, or the response has no "message")
\* lands in the `except Exception` clause.
update_session_state(states, session_id, message, response) ==
  IF session_id \notin DOMAIN states \/ "message" \notin DOMAIN response
  THEN [states |-> states, value |-> OrchestratorErrorPayload]
  ELSE [states |->
          [states EXCEPT ![session_id].responses =
             Append(@, [candidate_message |-> message,
                        agent_response |-> response.message,
                        evaluation |-> Get(response, "evaluation", EmptyDict),
                        next_action |-> Get(response, "next_action", "continue")])],
        value |-> response]

\* process_message(session_id, message) up to the first await that yields;
\* a call that suspends takes the free slot i of `pending`
process_message(session_id, message, i) ==
  IF session_id \notin DOMAIN active_interviews
  THEN \* HTTPException(404) raised inside the try, caught by its except
       /\ last' = Completed(session_id, FALSE, "none", EmptyDict,
                            OrchestratorErrorPayload)
       /\ UNCHANGED <<active_interviews, session_states, agents, pending>>
  ELSE
    LET agent == active_interviews[session_id]
        r == process_response(agents[agent], message)
    IN  /\ agents' = [agents EXCEPT ![agent] = r.st]
        /\ UNCHANGED active_interviews
        /\ IF r.status = "await"
           THEN /\ pending[i] = NoCall
                /\ pending' = [pending EXCEPT ![i] =
                     [op |-> "process_message",
                      session_id |-> session_id, message |-> message,
                      agent |-> agent,
                      entry_phase |-> agents[agent].phase,
                      frame |-> r.frame]]
                /\ UNCHANGED <<session_states, last>>
           ELSE LET u == update_session_state(session_states, session_id,
                                              message, Outcome(r))
                IN  /\ session_states' = u.states
                    /\ last' = Completed(session_id, TRUE,
                                         agents[agent].phase, Outcome(r), u.value)
                    /\ UNCHANGED pending

\* the generation awaited by pending call i resolves: the rest of
\* process_response, then the rest of process_message
generation_resolves(i, llm_outcome) ==
  /\ pending[i] # NoCall
  /\ LET call == pending[i]
         r == process_response_resume(agents[call.agent], call.frame,
                                      generate_response(llm_outcome))
         u == update_session_state(session_states, call.session_id,
                                   call.message, Outcome(r))
         calls == [pending EXCEPT ![i] = NoCall]
     IN  /\ pending' = calls
         /\ agents' = Collect([agents EXCEPT ![call.agent] = r.st],
                              active_interviews, calls)
         /\ session_states' = u.states
         /\ last' = Completed(call.session_id, TRUE, call.entry_phase,
                              Outcome(r), u.value)
  /\ UNCHANGED active_interviews

\* (mutant of end_interview) the session state dict is left in the registry
end_interview_keeps_state(session_id) ==
  IF session_id \notin DOMAIN active_interviews
       \/ session_id \notin DOMAIN session_states
  THEN /\ last' = [op |-> "end_interview", session_id |-> session_id,
                   found |-> FALSE, outcome |-> "raise", status_code |-> 500]
       /\ UNCHANGED <<active_interviews, session_states, agents, pending>>
  ELSE LET registry == DelKey(active_interviews, session_id)
       IN  /\ last' = [op |-> "end_interview", session_id |-> session_id,
                       found |-> TRUE, outcome |-> "return",
                       value |-> generate_final_report(
                                   agents[active_interviews[session_id]])]
           /\ active_interviews' = registry
           /\ agents' = Collect(agents, registry, pending)
           /\ UNCHANGED <<session_states, pending>>

\* end_interview(session_id): no await in it yields, so it runs in one step
end_interview(session_id) ==
  IF session_id \notin DOMAIN active_interviews
       \/ session_id \notin DOMAIN session_states
  THEN \* HTTPException(404) raised inside the try; the except clause
       \* raises HTTPException(500) in its place
       /\ last' = [op |-> "end_interview", session_id |-> session_id,
                   found |-> FALSE, outcome |-> "raise", status_code |-> 500]
       /\ UNCHANGED <<active_interviews, session_states, agents, pending>>
  ELSE LET registry == DelKey(active_interviews, session_id)
       IN  /\ last' = [op |-> "end_interview", session_id |-> session_id,
                       found |-> TRUE, outcome |-> "return",
                       value |-> generate_final_report(
                                   agents[active_interviews[session_id]])]
           /\ active_interviews' = registry
           /\ session_states' = DelKey(session_states, session_id)
           /\ agents' = Collect(agents, registry, pending)
           /\ UNCHANGED pending

(***************************************************************************)
(* ConnectionManager and the WebSocket endpoint                            *)
(***************************************************************************)
\* ConnectionManager.connect(websocket, session_id)
connect(websocket, session_id) ==
  LET connection_id == websocket
  IN  /\ active_connections' = SetKey(active_connections, connection_id,
                                      websocket)
      /\ session_connections' = SetKey(session_connections, session_id,
                                       connection_id)

\* ConnectionManager.disconnect(session_id)
disconnect(session_id) ==
  IF session_id \in DOMAIN session_connections
  THEN LET connection_id == session_connections[session_id]
       IN  /\ active_connections' =
                  IF connection_id \in DOMAIN active_connections
                  THEN DelKey(active_connections, connection_id)
                  ELSE active_connections
           /\ session_connections' = DelKey(session_connections, session_id)
  ELSE UNCHANGED <<active_connections, session_connections>>

\* websocket_interview_endpoint, line 317: a client opens a socket for
\* session_id and the endpoint enters its receive loop
websocket_connect(websocket, session_id) ==
  /\ \A e \in endpoints : e[1] # websocket
  /\ connect(websocket, session_id)
  /\ endpoints' = endpoints \cup {<<websocket, session_id>>}
  /\ UNCHANGED orchestrator

\* websocket_interview_endpoint, lines 410-412: receive_text raises
\* WebSocketDisconnect and the endpoint ends
websocket_disconnect(websocket, session_id) ==
  /\ <<websocket, session_id>> \in endpoints
  /\ disconnect(session_id)
  /\ endpoints' = endpoints \ {<<websocket, session_id>>}
  /\ UNCHANGED orchestrator

\* the lowest free slot of `pending`, or 1 when none is free
FreeSlot ==
  IF \E i \in 1..MaxPending : pending[i] = NoCall
  THEN CHOOSE i \in 1..MaxPending :
         pending[i] = NoCall /\ \A j \in 1..(i - 1) : pending[j] # NoCall
  ELSE 1

\* the operations of the orchestrator, as the REST endpoints and the
\* messages of the WebSocket endpoint call them
StartInterview ==
  \E s \in SessionIds :
     /\ Len(agents) < MaxInterviews
     /\ start_interview(s)
     /\ UNCHANGED <<connections, direct_calls>>

ProcessMessage ==
  \E s \in SessionIds, m \in Utterances :
     /\ TurnsIn(agents) < MaxTurns
     /\ process_message(s, m, FreeSlot)
     /\ UNCHANGED <<connections, direct_calls>>

GenerationDone ==
  \E i \in 1..MaxPending, o \in LLMOutcomes :
     generation_resolves(i, o) /\ UNCHANGED <<connections, direct_calls>>

EndInterview ==
  \E s \in SessionIds : end_interview(s) /\ UNCHANGED <<connections, direct_calls>>

WebSocketConnect ==
  \E w \in Sockets, s \in SessionIds :
     websocket_connect(w, s) /\ UNCHANGED direct_calls

WebSocketDisconnect ==
  \E w \in Sockets, s \in SessionIds :
     websocket_disconnect(w, s) /\ UNCHANGED direct_calls

Next ==
  \/ StartInterview
  \/ ProcessMessage
  \/ GenerationDone
  \/ EndInterview
  \/ WebSocketConnect
  \/ WebSocketDisconnect

Spec == Init /\ [][Next]_vars

(***************************************************************************)
(* Direct calls of the evaluator and the classifier                        *)
(***************************************************************************)
\* the questions put to the evaluator: the first question of each category
\* of the bank, and three samples
Questions ==
  {bank_basic_functions[1], bank_lookup_functions[1], bank_data_analysis[1],
   bank_advanced_features[1], bank_problem_solving[1],
   QuestionPlain, QuestionTwoCategories, QuestionLowerCase}

\* the longest answer made of filler words only
MaxFillerWords == 50

\* " ".join(["ok"] * n)
RECURSIVE Filler(_)
Filler(n) ==
  IF n = 0 THEN <<>>
  ELSE IF n = 1 THEN FillerWord
  ELSE Filler(n - 1) \o <<" ">> \o FillerWord

\* the answers and introductions given
Answers ==
  {AnswerEmpty, AnswerLookup, AnswerRepeats, AnswerTechnical, AnswerPractical,
   AnswerAt40, AnswerAt60, AnswerAt80,
   IntroAdvanced, IntroPlain, IntroIntermediate, IntroMixed, IntroLearning}
    \cup {Filler(n) : n \in 1..MaxFillerWords}

EvaluatorInit ==
  /\ Idle
  /\ arg_question \in Questions
  /\ arg_response \in Answers
  /\ arg_responses = <<>>
  /\ ret_evaluation = NotCalled
  /\ ret_skill_level = NotCalled
  /\ ret_report = NotCalled
  /\ NoReportCall

\* evaluator.evaluate_response(question, response, context)
Evaluate ==
  /\ ~ret_evaluation.called
  /\ ret_evaluation' = Called(evaluate_response(arg_question, arg_response))
  /\ UNCHANGED <<orchestrator, connections, arg_question, arg_response,
                 ret_skill_level, arg_responses, ret_report, arg_state,
                 ret_report_again, ret_skill_analysis>>

\* await self._assess_initial_skill_level(response)
Classify ==
  /\ ~ret_skill_level.called
  /\ ret_skill_level' = Called(assess_initial_skill_level(arg_response))
  /\ UNCHANGED <<orchestrator, connections, arg_question, arg_response,
                 ret_evaluation, arg_responses, ret_report, arg_state,
                 ret_report_again, ret_skill_analysis>>

EvaluatorNext == Evaluate \/ Classify

EvaluatorSpec == EvaluatorInit /\ [][EvaluatorNext]_vars

(***************************************************************************)
(* Direct calls of the report aggregator                                   *)
(***************************************************************************)
\* the turns process_response and _handle_question_response build
CandidateTurn(candidate_message, phase) ==
  [candidate_message |-> candidate_message, phase |-> phase]

EvaluatedTurn(current_question, candidate_message) ==
  [candidate_message |-> candidate_message, phase |-> "questions",
   evaluation |-> evaluate_response(current_question, candidate_message)]

\* the turn _generate_next_question builds
AgentTurn(category) ==
  [agent_message |-> question_bank[category][1], phase |-> "questions",
   category |-> category]

SampleTurns ==
  {CandidateTurn(IntroPlain, "introduction"),
   AgentTurn("basic_functions"),
   EvaluatedTurn(QuestionPlain, AnswerAt60)}
    \cup {EvaluatedTurn(q, a) :
            q \in {bank_basic_functions[1], bank_lookup_functions[1],
                   QuestionPlain},
            a \in {AnswerAt80, IntroPlain}}

\* the longest history handed to the aggregator
MaxReportTurns == 3

Histories == UNION {[1..n -> SampleTurns] : n \in 0..MaxReportTurns}

\* an interview_state whose history is `responses`, with the counters that
\* history gives: one question counted per evaluated turn, one correct
\* answer per evaluated turn of overall score >= 60
StateOf(responses) ==
  LET evaluated == {k \in 1..Len(responses) : HasEvaluation(responses[k])}
      correct   == {k \in evaluated :
                      responses[k].evaluation.overall_score_x4 >= 240}
      asked     == {k \in 1..Len(responses) :
                      "agent_message" \in DOMAIN responses[k]}
  IN  [InitialInterviewState EXCEPT
         !.phase = "questions",
         !.current_skill_level = CoroutineObject,
         !.questions_asked = Cardinality(asked),
         !.responses = responses,
         !.performance_tracking.total_questions = Cardinality(evaluated),
         !.performance_tracking.correct_answers = Cardinality(correct)]

ReportInit ==
  /\ Idle
  /\ arg_question = <<>>
  /\ arg_response = <<>>
  /\ arg_responses \in Histories
  /\ ret_evaluation = NotCalled
  /\ ret_skill_level = NotCalled
  /\ ret_report = NotCalled
  /\ arg_state = StateOf(arg_responses)
  /\ ret_report_again = NotCalled
  /\ ret_skill_analysis = NotCalled

\* agent.generate_final_report(session_state)
GenerateReport ==
  /\ ~ret_report.called
  /\ ret_report' = Called(generate_final_report(arg_state))
  /\ arg_state' = generate_final_report_leaves(arg_state)
  /\ UNCHANGED <<orchestrator, connections, arg_question, arg_response,
                 ret_evaluation, ret_skill_level, arg_responses,
                 ret_report_again, ret_skill_analysis>>

\* agent.generate_final_report(session_state), called once more on the
\* same agent with no utterance in between
GenerateReportAgain ==
  /\ ret_report.called
  /\ ~ret_report_again.called
  /\ ret_report_again' = Called(generate_final_report(arg_state))
  /\ arg_state' = generate_final_report_leaves(arg_state)
  /\ UNCHANGED <<orchestrator, connections, arg_question, arg_response,
                 ret_evaluation, ret_skill_level, arg_responses,
                 ret_report, ret_skill_analysis>>

ReportNext == GenerateReport \/ GenerateReportAgain

ReportSpec == ReportInit /\ [][ReportNext]_vars


(***************************************************************************)
(* Direct calls of _analyze_skill_demonstrations                           *)
(***************************************************************************)
\* an element of `responses` in which the method finds both keys it reads,
\* "category" and "evaluation"
TaggedEvaluatedTurn(category, current_question, candidate_message) ==
  [candidate_message |-> candidate_message, phase |-> "questions",
   category |-> category,
   evaluation |-> evaluate_response(current_question, candidate_message)]

AnalysisTurns ==
  {AgentTurn("basic_functions"),
   AgentTurn("lookup_functions"),
   EvaluatedTurn(bank_basic_functions[1], AnswerAt80),
   TaggedEvaluatedTurn("lookup_functions", bank_lookup_functions[1], AnswerAt60)}
    \cup {TaggedEvaluatedTurn("basic_functions", bank_basic_functions[1], a) :
            a \in {AnswerEmpty, AnswerRepeats, AnswerAt80}}

\* the longest history handed to the method
MaxAnalysisTurns == 3

AnalysisHistories == UNION {[1..n -> AnalysisTurns] : n \in 0..MaxAnalysisTurns}

AnalysisInit ==
  /\ Idle
  /\ arg_question = <<>>
  /\ arg_response = <<>>
  /\ arg_responses \in AnalysisHistories
  /\ ret_evaluation = NotCalled
  /\ ret_skill_level = NotCalled
  /\ ret_report = NotCalled
  /\ NoReportCall

\* self._analyze_skill_demonstrations(responses)
Analyze ==
  /\ ~ret_skill_analysis.called
  /\ ret_skill_analysis' = Called(analyze_skill_demonstrations(arg_responses))
  /\ UNCHANGED <<orchestrator, connections, arg_question, arg_response,
                 ret_evaluation, ret_skill_level, arg_responses, ret_report,
                 arg_state, ret_report_again>>

AnalysisNext == Analyze

AnalysisSpec == AnalysisInit /\ [][AnalysisNext]_vars

(***************************************************************************)
(* The ConnectionManager with several clients                              *)
(***************************************************************************)
\* the sockets clients open, and the session ids they open them for
ClientSockets  == {"w1", "w2"}
ClientSessions == {"s1", "s2"}

\* ConnectionManager.send_personal_message(session_id, message).  send_text
\* returns when the socket is open, that is, its endpoint is in its receive
\* loop; on a closed socket it raises and the except clause disconnects.
send_personal_message(session_id) ==
  LET sent(websocket) == [op |-> "send_personal_message",
                          session_id |-> session_id, outcome |-> "return",
                          websocket |-> websocket]
  IN  IF session_id \in DOMAIN session_connections
      THEN LET connection_id == session_connections[session_id]
           IN  IF connection_id \in DOMAIN active_connections
               THEN LET websocket == active_connections[connection_id]
                    IN  IF \E e \in endpoints : e[1] = websocket
                        THEN /\ last' = sent(websocket)
                             /\ UNCHANGED <<active_connections,
                                            session_connections>>
                        ELSE /\ last' = sent("none")
                             /\ disconnect(session_id)
               ELSE /\ last' = sent("none")
                    /\ UNCHANGED <<active_connections, session_connections>>
      ELSE /\ last' = sent("none")
           /\ UNCHANGED <<active_connections, session_connections>>

ClientConnect ==
  \E w \in ClientSockets, s \in ClientSessions :
     websocket_connect(w, s) /\ UNCHANGED direct_calls

ClientDisconnect ==
  \E w \in ClientSockets, s \in ClientSessions :
     websocket_disconnect(w, s) /\ UNCHANGED direct_calls

\* websocket_interview_endpoint, lines 378, 392, 405: the endpoint of an
\* open socket sends a reply to its session
EndpointSends ==
  \E e \in endpoints :
     /\ send_personal_message(e[2])
     /\ UNCHANGED <<active_interviews, session_states, agents, pending,
                    endpoints, direct_calls>>

ConnectionNext == ClientConnect \/ ClientDisconnect \/ EndpointSends

ConnectionSpec == Init /\ [][ConnectionNext]_vars
(***************************************************************************)
(* Properties                                                              *)
(***************************************************************************)
\* agent object o exists and is still referred to
Live(o) == o \in 1..Len(agents) /\ agents[o] # Collected

\* a process_message call on agent o is suspended in a generation
Suspended(o) ==
  \E i \in 1..MaxPending : pending[i] # NoCall /\ pending[i].agent = o

\* the positions of the candidate turns of st's history accepted in `phase`
CandidateTurns(st, phase) ==
  {k \in 1..Len(st.responses) :
     /\ "candidate_message" \in DOMAIN st.responses[k]
     /\ st.responses[k].phase = phase}

\* in this step agent o accepts an utterance while in `phase`
Accepts(o, phase) ==
  /\ agents[o].phase = phase
  /\ Len(agents'[o].responses) > Len(agents[o].responses)

\* the number of candidate utterances agent o has accepted
UtterancesOf(o) ==
  Cardinality({k \in 1..Len(agents[o].responses) :
                 "candidate_message" \in DOMAIN agents[o].responses[k]})

\* C1: the interview does not get stuck: a session that keeps receiving
\* utterances reaches phase conclusion.  Stated as the bound the threshold
\* gives: once QuestionsThreshold + 2 utterances (the introduction, one
\* answer for each counted question, the answer at the threshold) have been
\* processed to the end, the phase is conclusion or later.
C1_ReachesConclusion ==
  \A o \in 1..Len(agents) :
     (Live(o) /\ ~Suspended(o) /\ UtterancesOf(o) >= QuestionsThreshold + 2)
       => agents[o].phase \in {"conclusion", "completed"}

PhaseRank(p) ==
  CASE p = "introduction" -> 0
    [] p = "questions"    -> 1
    [] p = "conclusion"   -> 2
    [] p = "completed"    -> 3
    [] OTHER              -> 4

\* C2: no step moves the phase of an agent to an earlier phase of
\* introduction -> questions -> conclusion -> completed.
C2_PhaseMonotone ==
  [][\A o \in 1..Len(agents) :
       PhaseRank(agents'[o].phase) >= PhaseRank(agents[o].phase)]_vars

\* an agent has left introduction and has processed a further utterance
C2_Witness ==
  \E o \in 1..Len(agents) :
     agents[o].phase = "questions" /\ Len(agents[o].responses) >= 2

\* C3: every candidate turn accepted in phase questions carries an
\* Evaluation, and total_questions counts exactly those turns.
C3_QuestionTurnsScored ==
  \A o \in 1..Len(agents) :
     LET st == agents[o]
     IN  /\ \A k \in CandidateTurns(st, "questions") :
               HasEvaluation(st.responses[k])
         /\ st.performance_tracking.total_questions
              = Cardinality(CandidateTurns(st, "questions"))

\* C5: a step that processes an utterance in phase questions to its end
\* raises questions_asked by exactly one.
C5_EachAnswerCounts ==
  [][\A o \in 1..Len(agents) :
       (Accepts(o, "questions") /\ ~Suspended(o)')
         => agents'[o].questions_asked = agents[o].questions_asked + 1]_vars

SkillTiers == {"beginner", "intermediate", "advanced"}

\* C8: once the introduction utterance is processed, current_skill_level is
\* the classifier's result for that utterance, one of the three tiers.
C8_TierIsClassifierResult ==
  \A o \in 1..Len(agents) :
     LET st == agents[o]
     IN  (Live(o) /\ st.phase # "introduction")
           => /\ st.current_skill_level
                   = assess_initial_skill_level(st.responses[1].candidate_message)
              /\ st.current_skill_level \in SkillTiers

\* the category sequence of the specification, by asked count and tier
ExpectedCategory(k, tier) ==
  CASE k = 0 -> "basic_functions"
    [] k = 1 -> "lookup_functions"
    [] k = 2 -> "data_analysis"
    [] k = 3 -> (IF tier = "beginner" THEN "data_analysis"
                 ELSE "advanced_features")
    [] OTHER -> "problem_solving"

\* C9: for a session past its introduction, the category selected at asked
\* count k is the one the sequence gives for k and the tier its introduction
\* classifies as; a beginner's fourth question is from data_analysis.
C9_CategoryBySequence ==
  \A o \in 1..Len(agents) :
     LET st == agents[o]
     IN  (Live(o) /\ st.phase # "introduction")
           => \A k \in 0..QuestionsThreshold :
                 next_category(k, st.current_skill_level)
                   = ExpectedCategory(k,
                       assess_initial_skill_level(st.responses[1].candidate_message))

\* no turn accepted in phase introduction carries an Evaluation
IntroTurnsUnscored ==
  \A o \in 1..Len(agents) :
     \A k \in CandidateTurns(agents[o], "introduction") :
        "evaluation" \notin DOMAIN agents[o].responses[k]

\* in this step the generation awaited by agent o's introduction handler
\* resolves
ResumesIntroduction(o) ==
  \E i \in 1..MaxPending :
     /\ pending[i] # NoCall
     /\ pending[i].agent = o
     /\ pending[i].frame.at = "introduction"
     /\ pending'[i] = NoCall

\* C10: processing the introduction utterance (accepting it, and resuming
\* after its generation) attaches no Evaluation to the introduction turn and
\* leaves total_questions and correct_answers as they were.
C10_IntroductionNotScored ==
  [][\A o \in 1..Len(agents) :
       (Accepts(o, "introduction") \/ ResumesIntroduction(o))
         => /\ agents'[o].performance_tracking = agents[o].performance_tracking
            /\ IntroTurnsUnscored']_vars

\* an introduction utterance has been processed to its end
C10_Witness ==
  /\ last.op = "process_message"
  /\ last.found
  /\ last.entry_phase = "introduction"
  /\ \E o \in 1..Len(agents) :
        CandidateTurns(agents[o], "introduction") # {}


\* the step is a call process_message(s, m) on a session id in the registry
Processes(s, m) ==
  s \in DOMAIN active_interviews /\ process_message(s, m, FreeSlot)

\* the last completed call is a process_message that found its session
LastProcessed == last.op = "process_message" /\ last.found

\* C12: process_response never raises, and neither does process_message for
\* a known session id; when the handler of an utterance fails, the caller
\* gets the fixed apology payload and the turn of that utterance is in the
\* history.
C12_NeverRaises ==
  [][/\ LastProcessed'
          => /\ last'.agent_response # Raised
             /\ last'.outcome = "return"
             /\ Get(last'.value, "type", "none") = "error"
                  => last'.value \in {AgentErrorPayload, OrchestratorErrorPayload}
     /\ \A s \in SessionIds, m \in Utterances :
          (Processes(s, m) /\ pending' = pending
             /\ Get(last'.agent_response, "type", "none") = "error")
            => LET turns == agents'[active_interviews[s]].responses
               IN  /\ last'.agent_response = AgentErrorPayload
                   /\ Len(turns) > 0
                   /\ Get(turns[Len(turns)], "candidate_message", <<>>) = m
    ]_vars

\* a handler has failed and the caller of process_message has the apology
C12_Witness ==
  /\ LastProcessed
  /\ last.agent_response = AgentErrorPayload
  /\ last.value = AgentErrorPayload

\* C13: every process_response call makes the history strictly longer,
\* whether its handler succeeds or fails.
C13_EveryCallAppends ==
  [][\A s \in SessionIds, m \in Utterances :
       Processes(s, m)
         => Len(agents'[active_interviews[s]].responses)
              > Len(agents[active_interviews[s]].responses)]_vars

\* two failed calls have each left their turn behind the introduction's
C13_Witness ==
  /\ LastProcessed
  /\ last.agent_response = AgentErrorPayload
  /\ \E o \in 1..Len(agents) :
        Cardinality(CandidateTurns(agents[o], "questions")) >= 2

\* C14: process_message on a session id that is not in the registry fails
\* with NotFound (404); it returns no payload.
C14_UnknownIdIsNotFound ==
  (last.op = "process_message" /\ ~last.found)
    => (last.outcome = "raise" /\ last.status_code = 404)

\* C15: end_interview on an id that is not in the registry fails with
\* NotFound (404), not with the status of an internal failure.
C15_EndUnknownIsNotFound ==
  (last.op = "end_interview" /\ ~last.found)
    => (last.outcome = "raise" /\ last.status_code = 404)

\* the value is a report of generate_final_report
IsReport(v) == "interview_summary" \in DOMAIN v

\* C16: an end_interview(s) that returns a report leaves s in neither
\* active_interviews nor session_states; while s is absent end_interview(s)
\* returns no report, and process_message never returns one.
C16_EndedSessionIsGone ==
  [][\A s \in SessionIds :
       /\ (last'.op = "end_interview" /\ last'.outcome = "return"
             /\ end_interview(s))
            => /\ IsReport(last'.value)
               /\ s \notin DOMAIN active_interviews'
               /\ s \notin DOMAIN session_states'
       /\ (s \notin DOMAIN active_interviews /\ end_interview(s))
            => last'.outcome = "raise"
       /\ last'.op = "process_message" => ~IsReport(last'.value)
    ]_vars

\* a session was ended and a second end_interview on its id has failed
C16_Witness ==
  /\ Len(agents) >= 1
  /\ last.op = "end_interview"
  /\ ~last.found
  /\ last.session_id \notin DOMAIN active_interviews
  /\ last.session_id \notin DOMAIN session_states

\* C17: a process_message call in flight while its session is removed does
\* not read the removed session state and gives the candidate no error
\* caused by the removal: what the agent returned is what the caller gets.
C17_NoUseAfterRemove ==
  (LastProcessed /\ Get(last.agent_response, "type", "none") # "error")
    => last.value = last.agent_response

\* C18: while the generation call of an utterance is pending, the phase of
\* the session is still the phase in which the utterance was accepted.
C18_PhaseWaitsForGeneration ==
  \A i \in 1..MaxPending :
     pending[i] # NoCall
       => agents[pending[i].agent].phase = pending[i].entry_phase

\* C19: the processing of an utterance for a session id does not begin
\* while a call for the same id is suspended in its generation.
C19_OneUtteranceAtATime ==
  [][\A s \in SessionIds, m \in Utterances :
       Processes(s, m)
         => ~ \E i \in 1..MaxPending :
                pending[i] # NoCall /\ pending[i].session_id = s]_vars

\* C20: once the disconnect of a session's client is handled, no agent is
\* left in the registry under that session id.
C20_DisconnectDestroysSession ==
  [][\A w \in Sockets, s \in SessionIds :
       websocket_disconnect(w, s)
         => s \notin DOMAIN active_interviews']_vars

(***************************************************************************)
(* Properties of the evaluator and the classifier (EvaluatorSpec)          *)
(***************************************************************************)
\* the four sub-scores of an Evaluation
SubScores(e) ==
  <<e.technical_accuracy, e.practical_application, e.problem_solving,
    e.communication>>

\* C21: an Evaluation has four sub-scores, each an integer in [0,100], and
\* four times its overall score is their sum.
C21_ScoresInRange ==
  ret_evaluation.called
    => LET e == ret_evaluation.value
       IN  /\ \A k \in 1..4 : SubScores(e)[k] \in 0..100
           /\ e.overall_score_x4
                = SubScores(e)[1] + SubScores(e)[2] + SubScores(e)[3]
                    + SubScores(e)[4]

\* an answer with eleven practical terms was evaluated: the clamp applies
C21_Witness ==
  /\ ret_evaluation.called
  /\ arg_response = AnswerPractical
  /\ ret_evaluation.value.practical_application = 100

\* the communication score the specification gives for n words
CommunicationBand(n) ==
  CASE n < 10 -> 30
    [] n >= 10 /\ n < 20 -> 60
    [] n >= 20 /\ n < 50 -> 80
    [] OTHER -> 90

\* C22: the communication sub-score is the step function of the word count
\* n: 30 for n < 10, 60 for n < 20, 80 for n < 50, else 90; answers of
\* 9, 10, 19, 20, 49, 50 words score 30, 60, 60, 80, 80, 90.
C22_CommunicationBands ==
  ret_evaluation.called
    => LET score == ret_evaluation.value.communication
       IN  /\ score = CommunicationBand(WordCount(arg_response))
           /\ \A n \in 0..MaxFillerWords :
                 arg_response = Filler(n) => score = CommunicationBand(n)
           /\ arg_response = Filler(9)  => score = 30
           /\ arg_response = Filler(10) => score = 60
           /\ arg_response = Filler(19) => score = 60
           /\ arg_response = Filler(20) => score = 80
           /\ arg_response = Filler(49) => score = 80
           /\ arg_response = Filler(50) => score = 90

\* an answer of exactly fifty words was evaluated
C22_Witness ==
  /\ ret_evaluation.called
  /\ arg_response = Filler(50)
  /\ ret_evaluation.value.communication = 90

\* the number of distinct terms of a vocabulary that occur in the answer
Hits(vocabulary, answer) ==
  Cardinality({term \in {vocabulary[i] : i \in 1..Len(vocabulary)} :
                 Contains(term, Lower(answer))})

\* C23: each lexical sub-score is min(100, w * h), h the number of distinct
\* terms of the dimension's vocabulary occurring in the answer without
\* regard to case, w = 10 for technical accuracy and 12 for the other two;
\* an answer whose technical hits are vlookup, index, match scores 30.
C23_LexicalScores ==
  ret_evaluation.called
    => LET e == ret_evaluation.value
       IN  /\ e.technical_accuracy
                = Min(100, 10 * Hits(accuracy_indicators, arg_response))
           /\ e.practical_application
                = Min(100, 12 * Hits(practical_indicators, arg_response))
           /\ e.problem_solving
                = Min(100, 12 * Hits(problem_solving_indicators, arg_response))
           /\ arg_response = AnswerLookup => e.technical_accuracy = 30
           /\ arg_response = AnswerRepeats => e.technical_accuracy = 10

\* the answer naming VLOOKUP, Index and MATCH was evaluated
C23_Witness ==
  /\ ret_evaluation.called
  /\ arg_response = AnswerLookup
  /\ ret_evaluation.value.technical_accuracy = 30

\* C24: the empty answer, for any question, scores 0, 0, 0 on the lexical
\* dimensions and 30 on communication, has overall score 7.5 (30 / 4) and
\* the feedback of the lowest band.
C24_EmptyAnswer ==
  (ret_evaluation.called /\ arg_response = AnswerEmpty)
    => LET e == ret_evaluation.value
       IN  /\ SubScores(e) = <<0, 0, 0, 30>>
           /\ e.overall_score_x4 = 30
           /\ e.feedback = FeedbackImprove

\* the empty answer was evaluated against a question of the bank
C24_Witness ==
  /\ ret_evaluation.called
  /\ arg_response = AnswerEmpty
  /\ arg_question = bank_lookup_functions[1]

\* C25: the feedback is one of four fixed, different strings, chosen by the
\* band of the overall score: >= 80, >= 60, >= 40, below 40.
C25_FeedbackBands ==
  /\ Cardinality({FeedbackExcellent, FeedbackGood, FeedbackAdequate,
                  FeedbackImprove}) = 4
  /\ ret_evaluation.called
       => LET e == ret_evaluation.value
              overall_x4 == e.overall_score_x4
          IN  /\ overall_x4 >= 4 * 80 => e.feedback = FeedbackExcellent
              /\ (overall_x4 >= 4 * 60 /\ overall_x4 < 4 * 80)
                   => e.feedback = FeedbackGood
              /\ (overall_x4 >= 4 * 40 /\ overall_x4 < 4 * 60)
                   => e.feedback = FeedbackAdequate
              /\ overall_x4 < 4 * 40 => e.feedback = FeedbackImprove

\* an answer of overall score exactly 60 was evaluated
C25_Witness ==
  /\ ret_evaluation.called
  /\ ret_evaluation.value.overall_score_x4 = 240
  /\ ret_evaluation.value.feedback = FeedbackGood

\* some keyword of the k-th row of the keyword table occurs in the text
KeywordOccurs(k, text) ==
  \E j \in 1..Len(skill_categories[k].skills) :
     Contains(Lower(skill_categories[k].skills[j]), Lower(text))

\* the category of the first row from row k on with a keyword in the text
RECURSIVE FirstCategory(_, _)
FirstCategory(k, text) ==
  IF k > Len(skill_categories) THEN "general"
  ELSE IF KeywordOccurs(k, text) THEN skill_categories[k].category
  ELSE FirstCategory(k + 1, text)

\* C26: the skill category of an Evaluation is the first category, in the
\* order of the keyword table, with a keyword occurring in the question
\* without regard to case, and general when there is none; the answer has
\* no part in it.
C26_CategoryFromQuestion ==
  ret_evaluation.called
    => LET category == ret_evaluation.value.skill_category
       IN  /\ category = FirstCategory(1, arg_question)
           /\ arg_question = QuestionPlain => category = "general"
           /\ arg_question = QuestionTwoCategories
                => category = "basic_functions"
           /\ arg_question = QuestionLowerCase
                => category = "lookup_functions"

\* a question with keywords of two categories was evaluated with an answer
\* full of keywords of other categories
C26_Witness ==
  /\ ret_evaluation.called
  /\ arg_question = QuestionTwoCategories
  /\ arg_response = AnswerTechnical
  /\ ret_evaluation.value.skill_category = "basic_functions"

\* some term of the list occurs in the text, without regard to case
AnyOf(indicators, text) ==
  \E i \in 1..Len(indicators) : Contains(indicators[i], Lower(text))

\* C27: the classifier returns advanced when the introduction has an
\* advanced indicator, else intermediate when it has an intermediate
\* indicator, else beginner; "I use VBA and macros daily" is advanced and
\* an introduction without keywords is beginner.
C27_ClassifierPriority ==
  ret_skill_level.called
    => LET tier == ret_skill_level.value
       IN  /\ AnyOf(advanced_indicators, arg_response) => tier = "advanced"
           /\ (~AnyOf(advanced_indicators, arg_response)
                 /\ AnyOf(intermediate_indicators, arg_response))
                => tier = "intermediate"
           /\ (~AnyOf(advanced_indicators, arg_response)
                 /\ ~AnyOf(intermediate_indicators, arg_response))
                => tier = "beginner"
           /\ arg_response = IntroAdvanced => tier = "advanced"
           /\ arg_response = AnswerEmpty => tier = "beginner"

\* an introduction with indicators of all three tiers was classified
C27_Witness ==
  /\ ret_skill_level.called
  /\ arg_response = IntroMixed
  /\ AnyOf(intermediate_indicators, arg_response)
  /\ AnyOf(beginner_indicators, arg_response)
  /\ ret_skill_level.value = "advanced"

(***************************************************************************)
(* Properties of the report aggregator (ReportSpec, Spec)                  *)
(***************************************************************************)
\* C28: the success_rate of a report is correct_answers / total_questions
\* x 100 rounded to one decimal, and 0, in a complete report, when
\* total_questions is 0; it lies in [0,100].  (In tenths; no quotient of
\* counters this small lies halfway between two tenths.)
C28_SuccessRate ==
  ret_report.called
    => LET st == StateOf(arg_responses)
           total   == st.performance_tracking.total_questions
           correct == st.performance_tracking.correct_answers
           summary == ret_report.value.interview_summary
       IN  /\ "error" \notin DOMAIN ret_report.value
           /\ summary.total_questions = total
           /\ summary.correct_answers = correct
           /\ summary.success_rate_x10
                = IF total = 0 THEN 0
                  ELSE (2 * 1000 * correct + total) \div (2 * total)
           /\ summary.success_rate_x10 \in 0..1000

\* a report was made of a history in which nothing was evaluated
C28_Witness ==
  /\ ret_report.called
  /\ arg_responses = <<CandidateTurn(IntroPlain, "introduction")>>
  /\ ret_report.value.interview_summary.success_rate_x10 = 0

\* the title-cased categories of the evaluated turns whose overall score
\* satisfies Band, each once, in the order first seen
RECURSIVE DistinctCategories(_, _, _)
DistinctCategories(turns, Band(_), seen) ==
  IF turns = <<>> THEN seen
  ELSE
    LET turn == Head(turns)
        name == TitleCase(turn.evaluation.skill_category)
    IN  DistinctCategories(Tail(turns), Band,
          IF /\ HasEvaluation(turn)
             /\ Band(turn.evaluation.overall_score_x4)
             /\ \A i \in 1..Len(seen) : seen[i] # name
          THEN Append(seen, name)
          ELSE seen)

AtLeast80(score_x4) == score_x4 >= 320

Below60(score_x4) == score_x4 < 240

\* the turns of a report's detailed_feedback, as evaluated turns
FeedbackTurns(report) ==
  [k \in 1..Len(report.detailed_feedback) |->
     [evaluation |->
        [overall_score_x4 |-> report.detailed_feedback[k].score_x4,
         skill_category   |-> report.detailed_feedback[k].skill_category]]]

\* C30: the improvement areas of a report are ["Overall Excel proficiency"]
\* when no evaluated turn of the history scores below 60, and else the
\* distinct categories of the turns scoring below 60.  (The evaluated turns
\* of the history are those of the report's detailed_feedback.)
C30_ImprovementAreas ==
  (last.op = "end_interview" /\ last.outcome = "return")
    => LET weak == DistinctCategories(FeedbackTurns(last.value), Below60, <<>>)
       IN  last.value.areas_for_improvement
             = IF weak = <<>> THEN <<"Overall Excel proficiency">> ELSE weak

(***************************************************************************)
(* Properties of the history and the counters (Spec)                       *)
(***************************************************************************)
\* history `after` keeps every turn of `before` in its place and with its
\* fields, and among the turns it adds only candidate turns carry an
\* Evaluation
ExtendsHistory(before, after) ==
  /\ Len(after) >= Len(before)
  /\ \A k \in 1..Len(before) : after[k] = before[k]
  /\ \A k \in (Len(before) + 1)..Len(after) :
        HasEvaluation(after[k]) => "candidate_message" \in DOMAIN after[k]

\* C34: the history of an agent is append-only: a step leaves every turn
\* already in it in its place and with its fields; an Evaluation is attached
\* only to the candidate turn of the utterance the step processes.
C34_HistoryAppendOnly ==
  [][\A o \in 1..Len(agents) :
       agents'[o] # Collected
         => ExtendsHistory(agents[o].responses, agents'[o].responses)]_vars

\* an agent holds three turns, the last one appended by the call that
\* completed last
C34_Witness ==
  /\ last.op = "process_message"
  /\ \E o \in 1..Len(agents) : Live(o) /\ Len(agents[o].responses) = 3

\* C35: in every state of every agent,
\* correct_answers <= total_questions <= questions_asked <= 5.
C35_CountersOrdered ==
  \A o \in 1..Len(agents) :
     LET st == agents[o]
     IN  /\ st.performance_tracking.correct_answers
              <= st.performance_tracking.total_questions
         /\ st.performance_tracking.total_questions <= st.questions_asked
         /\ st.questions_asked <= QuestionsThreshold

\* an agent has taken an answer in phase questions
C35_Witness ==
  \E o \in 1..Len(agents) :
     /\ Live(o)
     /\ ~Suspended(o)
     /\ CandidateTurns(agents[o], "questions") # {}

\* C36: no turn of a history carries both a category tag and an Evaluation,
\* and the skill_analysis of every report end_interview returns is empty.
C36_NoTaggedEvaluation ==
  /\ \A o \in 1..Len(agents) :
        \A k \in 1..Len(agents[o].responses) :
           ~("category" \in DOMAIN agents[o].responses[k]
               /\ HasEvaluation(agents[o].responses[k]))
  /\ (last.op = "end_interview" /\ last.outcome = "return")
       => last.value.skill_analysis = EmptyDict

\* a report was returned for a session that had left the introduction
C36_Witness ==
  /\ last.op = "end_interview"
  /\ last.outcome = "return"
  /\ last.value.interview_summary.skill_level_assessed = CoroutineObject
  /\ last.value.skill_analysis = EmptyDict

\* C38: active_interviews and session_states hold the same session ids.
C38_RegistriesAgree ==
  DOMAIN active_interviews = DOMAIN session_states

\* a session is registered and has processed an utterance
C38_Witness ==
  /\ DOMAIN active_interviews = {"s1"}
  /\ DOMAIN session_states = {"s1"}
  /\ session_states["s1"].responses # <<>>

(***************************************************************************)
(* The questions of the bank, as the evaluator classifies them             *)
(***************************************************************************)
\* the categories _generate_next_question selects from
IssuedCategories ==
  {"basic_functions", "lookup_functions", "data_analysis",
   "advanced_features", "problem_solving"}

\* C37: the skill category the evaluator derives from the first question of
\* a category of the bank is that category.
C37_IssuedQuestionKeepsCategory ==
  ret_evaluation.called
    => \A c \in IssuedCategories :
          arg_question = question_bank[c][1]
            => ret_evaluation.value.skill_category = c

(***************************************************************************)
(* Properties of the report's parts (ReportSpec)                           *)
(***************************************************************************)
\* the positions, from k on, of the turns that carry an Evaluation
RECURSIVE EvaluatedPositions(_, _)
EvaluatedPositions(responses, k) ==
  IF k > Len(responses) THEN <<>>
  ELSE IF HasEvaluation(responses[k])
       THEN <<k>> \o EvaluatedPositions(responses, k + 1)
       ELSE EvaluatedPositions(responses, k + 1)

\* turn k answers the question the agent put in turn k - 1, and its
\* Evaluation is the one of that question and answer
AnswersQuestionBefore(responses, k) ==
  /\ k > 1
  /\ "agent_message" \in DOMAIN responses[k - 1]
  /\ HasEvaluation(responses[k])
  /\ responses[k].evaluation
       = evaluate_response(responses[k - 1].agent_message,
                           responses[k].candidate_message)

TaggedEvaluated(responses, c) ==
  {k \in 1..Len(responses) :
     /\ "category" \in DOMAIN responses[k]
     /\ responses[k].category = c
     /\ HasEvaluation(responses[k])}

\* four times the sum of the overall scores of the turns at `positions`
RECURSIVE ScoreSum(_, _)
ScoreSum(responses, positions) ==
  IF positions = {} THEN 0
  ELSE LET k == CHOOSE x \in positions : TRUE
       IN  responses[k].evaluation.overall_score_x4
             + ScoreSum(responses, positions \ {k})

Distance(a, b) == IF a >= b THEN a - b ELSE b - a

\* tenths is num / den rounded to one decimal, a tie going to the even tenth
IsRounded(tenths, num, den) ==
  /\ 2 * Distance(tenths * den, 10 * num) <= den
  /\ 2 * Distance(tenths * den, 10 * num) = den => tenths % 2 = 0

\* skill_analysis has an entry for exactly the categories of the fixed list
\* with a tagged turn that carries an Evaluation
EntriesAsTagged(responses, analysis) ==
  /\ DOMAIN analysis \subseteq ReportCategories
  /\ \A c \in ReportCategories :
        c \in DOMAIN analysis <=> TaggedEvaluated(responses, c) # {}

OpenFor(s) == {e[1] : e \in {x \in endpoints : x[2] = s}}

\* C39: a disconnect handled for one socket unregisters only that socket:
\* when the socket registered for its session is another one, that one
\* stays registered, and a message sent to the session still reaches an open
\* socket of the session.
C39_DisconnectOnlyOwnSocket ==
  [][/\ \A w \in ClientSockets, s \in ClientSessions :
          (/\ <<w, s>> \in endpoints
           /\ <<w, s>> \notin endpoints'
           /\ s \in DOMAIN session_connections
           /\ session_connections[s] # w)
            => /\ s \in DOMAIN session_connections'
               /\ session_connections'[s] = session_connections[s]
               /\ session_connections[s] \in DOMAIN active_connections'
     /\ (last'.op = "send_personal_message" /\ last' # last
           /\ OpenFor(last'.session_id) # {})
          => last'.websocket \in OpenFor(last'.session_id)]_vars
=============================================================================
